---- MODULE Spec2Model ----
(***************************************************************************)
(* Model of the Aetherius quest board bot: the JSON quest store            *)
(* (utils/storage.py), the title parser (utils/parser.py), the button      *)
(* callbacks and /quest commands (cogs/quest.py), the thread-creation      *)
(* listener (cogs/forum_listener.py), /setup and /stats clear.             *)
(*                                                                         *)
(* Text is modelled as a sequence of one-character strings, so that        *)
(* strip(), upper() and the bracket regular expression are computed the    *)
(* way Python computes them.  Python's None is the value None below, which *)
(* is different from every text, the empty text included.                  *)
(***************************************************************************)
EXTENDS Integers, Sequences, FiniteSets, TLC

\* ------------------------------------------------------------------ bounds
\* quest ids issued (the daily counter stops the creating handlers there)
MaxQuests == 1
\* application messages delivered to organizers' inboxes
MaxApps == 2
\* embed messages posted to the embed channels
MaxEmbeds == MaxQuests
\* clock advances, in application windows
MaxTicks == 1
\* handlers suspended at a platform call at the same time
MaxTasks == 2
\* threads of the process that call the store
MaxCallers == 2
\* calls of delete_quest and clear_guild_quests in one behaviour
MaxRemovals == 1
\* UTC calendar days the clock passes through
MaxDays == 2
\* ids generate_quest_id returns in one behaviour
MaxIssued == 2
\* restarts of the process
MaxRestarts == 1
\* pieces a thread title is put together from
MaxPieces == 3
MaxCreated == 2

\* ------------------------------------------------------- program constants
APPLICATION_LIMIT == 3
APPLICATION_WINDOW == 3600

\* --------------------------------------------------------------------- text
None == <<"None">>
NoId == 0

Truthy(x) == x # None /\ x # <<>>

Letters ==
  [a |-> "A", b |-> "B", c |-> "C", d |-> "D", e |-> "E", f |-> "F", g |-> "G",
   h |-> "H", i |-> "I", j |-> "J", k |-> "K", l |-> "L", m |-> "M", n |-> "N",
   o |-> "O", p |-> "P", q |-> "Q", r |-> "R", s |-> "S", t |-> "T", u |-> "U",
   v |-> "V", w |-> "W", x |-> "X", y |-> "Y", z |-> "Z"]

UpperChar(c) == IF c \in DOMAIN Letters THEN Letters[c] ELSE c

\* str.upper()
Upper(s) == [i \in 1..Len(s) |-> UpperChar(s[i])]

IsSpace(c) == c \in {" ", "\t", "\n"}

RECURSIVE LStrip(_)
LStrip(s) == IF s # <<>> /\ IsSpace(Head(s)) THEN LStrip(Tail(s)) ELSE s

RECURSIVE RStrip(_)
RStrip(s) ==
  IF s # <<>> /\ IsSpace(s[Len(s)]) THEN RStrip(SubSeq(s, 1, Len(s) - 1)) ELSE s

\* str.strip()
Strip(s) == RStrip(LStrip(s))

RECURSIVE Join(_, _)
\* sep.join(parts)
Join(parts, sep) ==
  IF parts = <<>> THEN <<>>
  ELSE IF Len(parts) = 1 THEN parts[1]
  ELSE parts[1] \o sep \o Join(Tail(parts), sep)

\* ------------------------------------------------------------- vocabularies
RECRUITING == <<"R","E","C","R","U","I","T","I","N","G">>
FULL == <<"F","U","L","L">>
COMPLETED == <<"C","O","M","P","L","E","T","E","D">>
CANCELLED == <<"C","A","N","C","E","L","L","E","D">>
DELETED == <<"D","E","L","E","T","E","D">>
ONLINE == <<"O","N","L","I","N","E">>
OFFLINE == <<"O","F","F","L","I","N","E">>
ONESHOT == <<"O","N","E","S","H","O","T">>
CAMPAIGN == <<"C","A","M","P","A","I","G","N">>
UNKNOWN == <<"U","N","K","N","O","W","N">>
UntitledQuest == <<"U","n","t","i","t","l","e","d"," ","Q","u","e","s","t">>

VALID_STATUS == {RECRUITING, FULL, COMPLETED, CANCELLED}
VALID_MODE == {ONLINE, OFFLINE}
VALID_TYPE == {ONESHOT, CAMPAIGN}

\* ------------------------------------------------------------- title parser
RECURSIVE FirstClose(_, _)
\* index of the first "]" at or after i, 0 when there is none
FirstClose(s, i) ==
  IF i > Len(s) THEN 0
  ELSE IF s[i] = "]" THEN i
  ELSE FirstClose(s, i + 1)

\* BRACKET_RE matched at position i: the index of its closing "]", or 0.
\* "[^\]]+" needs one character other than "]" and takes all of them.
BracketMatchEnd(s, i) ==
  IF s[i] = "[" /\ i + 1 <= Len(s) /\ s[i + 1] # "]"
  THEN FirstClose(s, i + 1)
  ELSE 0

RECURSIVE BracketScan(_, _)
\* left-to-right, non-overlapping matches of BRACKET_RE from position i:
\* the captured groups (findall) and the text outside the matches (sub "")
BracketScan(s, i) ==
  IF i > Len(s) THEN [tokens |-> <<>>, rest |-> <<>>]
  ELSE LET k == BracketMatchEnd(s, i) IN
       IF k > 0
       THEN LET r == BracketScan(s, k + 1) IN
            [tokens |-> <<SubSeq(s, i + 1, k - 1)>> \o r.tokens, rest |-> r.rest]
       ELSE LET r == BracketScan(s, i + 1) IN
            [tokens |-> r.tokens, rest |-> <<s[i]>> \o r.rest]

RECURSIVE ParseTokensLastSystem(_, _)
\* the loop with a system that every later unmatched token replaces
ParseTokensLastSystem(tokens, result) ==
  IF tokens = <<>> THEN result
  ELSE LET upper == Upper(Strip(Head(tokens)))
           next == IF upper \in VALID_STATUS THEN [result EXCEPT !.status = upper]
                   ELSE IF upper \in VALID_MODE THEN [result EXCEPT !.mode = upper]
                   ELSE IF upper \in VALID_TYPE THEN [result EXCEPT !.quest_type = upper]
                   ELSE [result EXCEPT !.system = upper]
       IN ParseTokensLastSystem(Tail(tokens), next)

RECURSIVE ParseTokens(_, _)
\* the loop over the bracketed tokens of parse_title
ParseTokens(tokens, result) ==
  IF tokens = <<>> THEN result
  ELSE LET upper == Upper(Strip(Head(tokens)))
           next == IF upper \in VALID_STATUS THEN [result EXCEPT !.status = upper]
                   ELSE IF upper \in VALID_MODE THEN [result EXCEPT !.mode = upper]
                   ELSE IF upper \in VALID_TYPE THEN [result EXCEPT !.quest_type = upper]
                   ELSE IF result.system = None THEN [result EXCEPT !.system = upper]
                   ELSE result
       IN ParseTokens(Tail(tokens), next)

parse_title(title) ==
  LET scan == BracketScan(title, 1)
      remainder == Strip(scan.rest)
      result == ParseTokens(scan.tokens,
                  [status |-> None, mode |-> None, quest_type |-> None,
                   system |-> None, title |-> None])
  IN [result EXCEPT !.title = IF remainder # <<>> THEN remainder ELSE UntitledQuest]

Bracket(s) == <<"[">> \o s \o <<"]">>

build_thread_title(quest) ==
  LET parts == (IF Truthy(quest.status) THEN <<Bracket(quest.status)>> ELSE <<>>)
            \o (IF Truthy(quest.mode) THEN <<Bracket(quest.mode)>> ELSE <<>>)
            \o (IF Truthy(quest.quest_type) THEN <<Bracket(quest.quest_type)>> ELSE <<>>)
            \o (IF Truthy(quest.system) THEN <<Bracket(quest.system)>> ELSE <<>>)
            \o <<quest.title>>
  IN Join(parts, <<" ">>)

\* ------------------------------------------------- system keywords (re.search)
Digits == {"0", "1", "2", "3", "4", "5", "6", "7", "8", "9"}

\* \w
IsWord(c) ==
  \/ c \in DOMAIN Letters
  \/ c \in {Letters[l] : l \in DOMAIN Letters}
  \/ c \in Digits
  \/ c = "_"

\* pattern elements: a literal character, \b, \s*, and an optional character
WordEdge == [kind |-> "b", ch |-> ""]
SpaceStar == [kind |-> "s*", ch |-> ""]
Opt(c) == [kind |-> "c?", ch |-> c]
Lit(s) == [i \in 1..Len(s) |-> [kind |-> "c", ch |-> s[i]]]
Word(s) == <<WordEdge>> \o Lit(s) \o <<WordEdge>>

SYSTEM_KEYWORDS == <<
    Word(<<"D","&","D">>),
    Word(<<"D","N","D">>),
    <<WordEdge>> \o Lit(<<"D","u","n","g","e","o","n","s">>) \o <<SpaceStar, Opt("&"), SpaceStar>> \o Lit(<<"D","r","a","g","o","n","s">>) \o <<WordEdge>>,
    Word(<<"P","a","t","h","f","i","n","d","e","r">>),
    <<WordEdge>> \o Lit(<<"P","F","2">>) \o <<Opt("e"), WordEdge>>,
    Word(<<"C","a","l","l"," ","o","f"," ","C","t","h","u","l","h","u">>),
    Word(<<"C","o","C">>),
    Word(<<"V","a","m","p","i","r","e">>),
    Word(<<"V","5">>),
    Word(<<"V","t","M">>),
    Word(<<"S","a","v","a","g","e"," ","W","o","r","l","d","s">>),
    Word(<<"F","a","t","e">>),
    Word(<<"C","y","b","e","r","p","u","n","k">>),
    Word(<<"S","h","a","d","o","w","r","u","n">>),
    Word(<<"S","t","a","r","f","i","n","d","e","r">>),
    Word(<<"B","l","a","d","e","s"," ","i","n"," ","t","h","e"," ","D","a","r","k">>),
    Word(<<"D","e","l","t","a"," ","G","r","e","e","n">>),
    Word(<<"W","a","r","h","a","m","m","e","r">>),
    Word(<<"W","F","R","P">>),
    Word(<<"1","3","t","h"," ","A","g","e">>),
    Word(<<"T","r","a","v","e","l","l","e","r">>),
    Word(<<"M","y","t","h","r","a","s">>),
    Word(<<"D","C","C">>)
>>

\* \b at position j (between s[j-1] and s[j])
AtWordEdge(s, j) ==
  LET before == j > 1 /\ IsWord(s[j - 1])
      after == j <= Len(s) /\ IsWord(s[j])
  IN before # after

\* re.IGNORECASE comparison of one character
SameLetter(a, b) == UpperChar(a) = UpperChar(b)

RECURSIVE SpaceRun(_, _)
\* number of whitespace characters from position j on
SpaceRun(s, j) == IF j <= Len(s) /\ IsSpace(s[j]) THEN 1 + SpaceRun(s, j + 1) ELSE 0

RECURSIVE MatchAt(_, _, _, _)
RECURSIVE MatchStar(_, _, _, _, _)
\* greedy backtracking match of pat[k..] at position j: the position after the
\* match, or -1
MatchAt(pat, k, s, j) ==
  IF k > Len(pat) THEN j
  ELSE LET e == pat[k] IN
       IF e.kind = "b" THEN (IF AtWordEdge(s, j) THEN MatchAt(pat, k + 1, s, j) ELSE -1)
       ELSE IF e.kind = "c"
       THEN (IF j <= Len(s) /\ SameLetter(s[j], e.ch)
             THEN MatchAt(pat, k + 1, s, j + 1) ELSE -1)
       ELSE IF e.kind = "c?"
       THEN LET with == IF j <= Len(s) /\ SameLetter(s[j], e.ch)
                        THEN MatchAt(pat, k + 1, s, j + 1) ELSE -1
            IN IF with >= 0 THEN with ELSE MatchAt(pat, k + 1, s, j)
       ELSE MatchStar(pat, k, s, j, SpaceRun(s, j))

\* \s* taking n characters, then fewer
MatchStar(pat, k, s, j, n) ==
  LET r == MatchAt(pat, k + 1, s, j + n) IN
  IF r >= 0 \/ n = 0 THEN r ELSE MatchStar(pat, k, s, j, n - 1)

RECURSIVE SearchFrom(_, _, _)
\* re.search: the leftmost match, as <<start, end>>, or <<0, 0>>
SearchFrom(pat, s, i) ==
  IF i > Len(s) + 1 THEN <<0, 0>>
  ELSE LET r == MatchAt(pat, 1, s, i) IN
       IF r >= 0 THEN <<i, r>> ELSE SearchFrom(pat, s, i + 1)

RECURSIVE SystemFromKeywords(_, _)
SystemFromKeywords(body, n) ==
  IF n > Len(SYSTEM_KEYWORDS) THEN None
  ELSE LET m == SearchFrom(SYSTEM_KEYWORDS[n], body, 1) IN
       IF m[1] > 0 THEN Upper(Strip(SubSeq(body, m[1], m[2] - 1)))
       ELSE SystemFromKeywords(body, n + 1)

parse_system_from_body(body) == SystemFromKeywords(body, 1)


\* ------------------------------------------------------------------ inputs
Users == {1, 2, 3}
Guilds == {1}
ThreadIds == {1}
\* max_players arguments: the commands take any int
MaxPlayersArgs == {0, 1, 2}

\* the channels of a guild: its forum, its embed channel, and any other channel
ForumOf(g) == 10 * g + 1
BoardOf(g) == 10 * g + 2
ElsewhereOf(g) == 10 * g + 3

\* thread names users give their threads: one that names the system, one that
\* names a status and no system
ThreadNames ==
  { <<"[", "d", "n", "d", "]", " ", "b">>,
    <<"[", "f", "u", "l", "l", "]", " ", "b">> }

\* who opens thread t, and the starter message written there
OwnerOf(t) == IF t \in Users THEN t ELSE 1
BodyOf(t) == IF t = 1 THEN <<>> ELSE <<"a"," ","F","a","t","e"," ","g","a","m","e">>

VARIABLES
  quests,            \* data["quests"] of quests.json: quest_id -> record
  daily_counter,     \* data["daily_counter"][date_key], for the current UTC day
  guild_configs,     \* data["guild_configs"]: guild -> config
  threads,           \* the platform's threads: id -> guild, parent, owner, name, body
  embeds,            \* the messages posted in embed channels, by message id
  inbox,             \* the application messages sent to organizers, with their buttons
  apply_timestamps,  \* _apply_timestamps: <<user, quest_id>> -> admitted timestamps
  now,               \* the UTC clock, in seconds
  tasks,             \* the handlers suspended at a platform call, with their locals
  purged,            \* the quest ids whose record was removed from the store
  disk,              \* quests.json as the threads of the process read and write it
  _lock,             \* the thread inside "with _lock", NoId when it is free
  callers,           \* thread -> the store function it runs, its position and its data
  utc_date,          \* the UTC calendar day, as an index of Dates
  calls,             \* the ids returned, the removals and the restarts, in order
  serial             \* the document after the saving calls, one whole call at a time

vars == <<quests, daily_counter, guild_configs, threads, embeds, inbox,
          apply_timestamps, now, tasks, purged,
          disk, _lock, callers, utc_date, calls, serial>>

\* the store at the level of threads, locks and rendered ids
pool == <<disk, _lock, callers, utc_date, calls, serial>>

\* what the handlers taken as single steps leave alone
ext == <<tasks, purged, pool>>

\* the bot at the level of handlers
bot == <<quests, daily_counter, guild_configs, threads, embeds, inbox,
         apply_timestamps, now, tasks, purged>>

store == <<quests, daily_counter, guild_configs>>

NoConfig == [forum_channel_id |-> NoId, embed_channel_id |-> NoId]

\* _load when DATA_PATH does not exist
EmptyDocument == [quests |-> <<>>, daily_counter |-> <<>>, guild_configs |-> <<>>]

Callers == 1..MaxCallers

\* a thread of a process that is not running
Down == [pc |-> "down", op |-> "none", arg |-> NoId, data |-> EmptyDocument]

\* a thread outside the store
Idle == [pc |-> "idle", op |-> "none", arg |-> NoId, data |-> EmptyDocument]

Init ==
  /\ quests = <<>>
  /\ daily_counter = 0
  /\ guild_configs = [g \in Guilds |-> NoConfig]
  /\ threads = <<>>
  /\ embeds = <<>>
  /\ inbox = <<>>
  /\ apply_timestamps = <<>>
  /\ now = 0
  /\ tasks = <<>>
  /\ purged = {}
  /\ disk = EmptyDocument
  /\ _lock = NoId
  /\ callers = [c \in Callers |-> Down]
  /\ utc_date = 1
  /\ calls = <<>>
  /\ serial = EmptyDocument

\* ------------------------------------------------------------------- storage
\* dict[key] = value
Put(f, k, v) == [x \in DOMAIN f \cup {k} |-> IF x = k THEN v ELSE f[x]]

\* dict.pop(key, None)
Pop(f, k) == [x \in DOMAIN f \ {k} |-> f[x]]

\* quest ids are the sequence numbers of the current day; the store keeps its
\* keys in insertion order, which is the order of the ids
generate_quest_id == daily_counter + 1

save_quest(qs, quest_id, quest_data) == Put(qs, quest_id, quest_data)

DeleteQuestSkipped(qs, quest_id) == qs

\* a soft delete: the record is marked and kept
DeleteQuestMarked(qs, quest_id) ==
  IF quest_id \in DOMAIN qs THEN [qs EXCEPT ![quest_id].status = DELETED] ELSE qs

delete_quest(qs, quest_id) == Pop(qs, quest_id)

get_guild_config(guild_id) == guild_configs[guild_id]

QuestsOfThread(thread_id) == {q \in DOMAIN quests : quests[q].thread_id = thread_id}

\* the first quest of the thread in the store's order; NoId when there is none
get_quest_by_thread(thread_id) ==
  IF QuestsOfThread(thread_id) = {} THEN NoId
  ELSE CHOOSE q \in QuestsOfThread(thread_id) :
         \A other \in QuestsOfThread(thread_id) : q <= other

\* a clear that empties the store
ClearedEveryGuild(qs, guild_id) == <<>>

clear_guild_quests(qs, guild_id) ==
  [q \in {x \in DOMAIN qs : qs[x].guild_id # guild_id} |-> qs[q]]

\* what clear_guild_quests returns: before - after
ClearedCount(qs, guild_id) ==
  Cardinality(DOMAIN qs) - Cardinality(DOMAIN clear_guild_quests(qs, guild_id))

\* --------------------------------------------------------------- permissions
ManagerCheckSkipped(actor, quest) == TRUE

\* an actor is a user id with the manage_guild permission it holds at the call
_is_quest_manager(actor, quest) ==
  LET is_dm == actor.id = quest.dm_id
      is_admin == actor.manage_guild
  IN is_dm \/ is_admin

\* ----------------------------------------------------------- platform writes
\* a deleted message: fetch_message no longer finds it
Tombstone ==
  [quest_id |-> NoId, status |-> None, roster |-> <<>>, buttons |-> FALSE, deleted |-> TRUE]

Rendering(quest) ==
  [quest_id |-> quest.quest_id, status |-> quest.status, roster |-> quest.roster,
   buttons |-> TRUE, deleted |-> FALSE]

\* thread.edit(name=...)
Renamed(ths, thread_id, name) == [ths EXCEPT ![thread_id].name = name]

\* /setup: the ping roles only change the text of posted messages and are left out
Setup(g) ==
  /\ guild_configs' = [guild_configs EXCEPT ![g] =
        [forum_channel_id |-> ForumOf(g), embed_channel_id |-> BoardOf(g)]]
  /\ UNCHANGED <<quests, daily_counter, threads, embeds, inbox, apply_timestamps, now>>

\* a record that opens recruiting whatever the title says
NewQuestRecruiting(quest_id, guild_id, thread_id, dm_id, parsed, system, max_players, embed_channel_id) ==
  [quest_id |-> quest_id,
   guild_id |-> guild_id,
   thread_id |-> thread_id,
   dm_id |-> dm_id,
   title |-> parsed.title,
   status |-> RECRUITING,
   mode |-> parsed.mode,
   quest_type |-> parsed.quest_type,
   system |-> system,
   max_players |-> max_players,
   roster |-> <<>>,
   waitlist |-> <<>>,
   embed_channel_id |-> embed_channel_id,
   embed_message_id |-> NoId]

\* the record the three creating handlers build
NewQuest(quest_id, guild_id, thread_id, dm_id, parsed, system, max_players, embed_channel_id) ==
  [quest_id |-> quest_id,
   guild_id |-> guild_id,
   thread_id |-> thread_id,
   dm_id |-> dm_id,
   title |-> parsed.title,
   status |-> IF Truthy(parsed.status) THEN parsed.status ELSE RECRUITING,
   mode |-> parsed.mode,
   quest_type |-> parsed.quest_type,
   system |-> system,
   max_players |-> max_players,
   roster |-> <<>>,
   waitlist |-> <<>>,
   embed_channel_id |-> embed_channel_id,
   embed_message_id |-> NoId]

\* thread.history(limit=1, oldest_first=True) of recruit and register: the
\* starter message replaces the system when it can be read
SystemAfterHistory(system, body, okHistory) ==
  IF Truthy(system) THEN system
  ELSE IF okHistory THEN parse_system_from_body(body)
  ELSE system

\* A user opens a thread and the gateway delivers on_thread_create.
\* okHistory, okRename, okSend: whether reading the starter message, renaming the
\* thread and posting the embed succeed.
on_thread_create(t, g, owner, parent, name, body, okHistory, okRename, okSend) ==
  LET th == [guild |-> g, parent |-> parent, owner |-> owner, name |-> name, body |-> body]
      config == get_guild_config(g)
      parsed == parse_title(name)
      starter_body == IF okHistory THEN body ELSE <<>>
      system == IF ~Truthy(parsed.system) /\ starter_body # <<>>
                THEN parse_system_from_body(starter_body)
                ELSE parsed.system
      embed_channel_id == config.embed_channel_id
      quest_id == generate_quest_id
      quest == NewQuest(quest_id, g, t, owner, parsed, system, 0, embed_channel_id)
      new_title == build_thread_title(quest)
      posts == embed_channel_id # NoId
      sent == Len(embeds) + 1
      posted == [quest EXCEPT !.embed_message_id = sent]
      last == IF posts THEN posted ELSE quest
      final == IF ~Truthy(system) THEN [last EXCEPT !.system = UNKNOWN] ELSE last
  IN
  /\ t \notin DOMAIN threads
  /\ UNCHANGED <<guild_configs, inbox, apply_timestamps, now>>
  /\ IF config.forum_channel_id = NoId \/ parent # config.forum_channel_id
     THEN /\ threads' = Put(threads, t, th)
          /\ UNCHANGED <<quests, daily_counter, embeds>>
     ELSE /\ daily_counter < MaxQuests
          /\ posts => Len(embeds) < MaxEmbeds
          /\ daily_counter' = quest_id
          /\ threads' = Put(threads, t,
                          IF okRename /\ name # new_title
                          THEN [th EXCEPT !.name = new_title] ELSE th)
          /\ IF posts /\ ~okSend
             \* embed_channel.send raised: the handler ends there
             THEN /\ quests' = save_quest(quests, quest_id, quest)
                  /\ UNCHANGED embeds
             ELSE /\ quests' = save_quest(quests, quest_id, final)
                  /\ embeds' = IF posts THEN Append(embeds, Rendering(quest)) ELSE embeds

\* /quest register
quest_register(actor, t, max_players, okHistory, okRename) ==
  LET th == threads[t]
      is_owner == actor.id = th.owner
      is_admin == actor.manage_guild
      existing == get_quest_by_thread(t)
      parsed == parse_title(th.name)
      quest_id == generate_quest_id
      system == SystemAfterHistory(parsed.system, th.body, okHistory)
      quest == NewQuest(quest_id, th.guild, t, actor.id, parsed,
                        IF Truthy(system) THEN system ELSE UNKNOWN, max_players, NoId)
      new_title == build_thread_title(quest)
  IN
  /\ t \in DOMAIN threads
  /\ UNCHANGED <<guild_configs, embeds, inbox, apply_timestamps, now>>
  /\ IF ~(is_owner \/ is_admin)
     THEN /\ UNCHANGED <<quests, daily_counter, threads>>
     ELSE IF existing # NoId
     THEN /\ UNCHANGED <<quests, daily_counter, threads>>
     ELSE /\ daily_counter < MaxQuests
          /\ daily_counter' = quest_id
          /\ quests' = save_quest(quests, quest_id, quest)
          /\ threads' = IF okRename THEN Renamed(threads, t, new_title) ELSE threads

\* the channel id written to thread_id in place of embed_channel_id
RepostedOverThread(old, quest_id, embed_channel_id, max_players) ==
  [old EXCEPT !.quest_id = quest_id,
              !.thread_id = embed_channel_id,
              !.embed_message_id = NoId,
              !.max_players = IF max_players # 0 THEN max_players ELSE @]

\* /quest recruit in a thread that has a quest: the record is re-used and
\* pointed at the new channel
Reposted(old, quest_id, embed_channel_id, max_players) ==
  [old EXCEPT !.quest_id = quest_id,
              !.embed_channel_id = embed_channel_id,
              !.embed_message_id = NoId,
              !.max_players = IF max_players # 0 THEN max_players ELSE @]

\* /quest recruit
\* okHistory, okDelete, okSend, okRename: whether reading the starter message,
\* deleting the old embed, posting the new one and renaming the thread succeed.
quest_recruit(actor, t, max_players, okHistory, okDelete, okSend, okRename) ==
  LET th == threads[t]
      config == get_guild_config(th.guild)
      embed_channel_id == config.embed_channel_id
      is_owner == actor.id = th.owner
      is_admin == actor.manage_guild
      existing == get_quest_by_thread(t)
      \* an existing quest is re-used
      old == quests[existing]
      old_msg_id == old.embed_message_id
      deletes == /\ old.embed_channel_id # NoId /\ old_msg_id # NoId
                 /\ okDelete /\ ~embeds[old_msg_id].deleted
      reused == Reposted(old, existing, embed_channel_id, max_players)
      \* a brand new quest
      parsed == parse_title(th.name)
      system == SystemAfterHistory(parsed.system, th.body, okHistory)
      fresh == NewQuest(generate_quest_id, th.guild, t, actor.id, parsed,
                        IF Truthy(system) THEN system ELSE UNKNOWN,
                        max_players, embed_channel_id)
      quest_id == IF existing # NoId THEN existing ELSE generate_quest_id
      quest == IF existing # NoId THEN reused ELSE fresh
      cleaned == IF existing # NoId /\ deletes
                 THEN [embeds EXCEPT ![old_msg_id] = Tombstone] ELSE embeds
      sent == Len(embeds) + 1
      new_title == build_thread_title(quest)
  IN
  /\ t \in DOMAIN threads
  /\ UNCHANGED <<guild_configs, inbox, apply_timestamps, now>>
  /\ IF embed_channel_id = NoId
     THEN /\ UNCHANGED <<quests, daily_counter, threads, embeds>>
     ELSE IF ~(is_owner \/ is_admin)
     THEN /\ UNCHANGED <<quests, daily_counter, threads, embeds>>
     ELSE /\ existing = NoId => daily_counter < MaxQuests
          /\ Len(embeds) < MaxEmbeds
          /\ daily_counter' = IF existing = NoId THEN quest_id ELSE daily_counter
          /\ IF okSend
             THEN /\ quests' = save_quest(quests, quest_id,
                                          [quest EXCEPT !.embed_message_id = sent])
                  /\ embeds' = Append(cleaned, Rendering(quest))
                  /\ threads' = IF okRename THEN Renamed(threads, t, new_title) ELSE threads
             \* embed_channel.send raised: the first save stands, nothing else runs
             ELSE /\ quests' = save_quest(quests, quest_id, quest)
                  /\ embeds' = cleaned
                  /\ UNCHANGED threads

\* -------------------------------------------------------------- rate limiter
\* the attempts of the applicant, on whichever quest
TimestampsOfUser(key) ==
  LET same == {other \in DOMAIN apply_timestamps : other[1] = key[1]} IN
  IF same = {} THEN <<>> ELSE apply_timestamps[CHOOSE other \in same : TRUE]

Timestamps(key) == IF key \in DOMAIN apply_timestamps THEN apply_timestamps[key] ELSE <<>>

\* [t for t in times if now - t < APPLICATION_WINDOW]
RECURSIVE InWindow(_, _)
InWindow(times, clock) ==
  IF times = <<>> THEN <<>>
  ELSE IF clock - Head(times) < APPLICATION_WINDOW
       THEN <<Head(times)>> \o InWindow(Tail(times), clock)
       ELSE InWindow(Tail(times), clock)

CheckApplyRateAboveLimit(user_id, quest_id, clock) ==
  LET times == InWindow(Timestamps(<<user_id, quest_id>>), clock) IN
  IF Len(times) > APPLICATION_LIMIT
  THEN [allowed |-> FALSE,
        reset_in |-> APPLICATION_WINDOW - (clock - times[1]),
        times |-> times]
  ELSE [allowed |-> TRUE, reset_in |-> 0, times |-> Append(times, clock)]

\* _check_apply_rate: (allowed, seconds until reset, the list left under the key)
_check_apply_rate(user_id, quest_id, clock) ==
  LET times == InWindow(Timestamps(<<user_id, quest_id>>), clock) IN
  IF Len(times) >= APPLICATION_LIMIT
  THEN [allowed |-> FALSE,
        reset_in |-> APPLICATION_WINDOW - (clock - times[1]),
        times |-> times]
  ELSE [allowed |-> TRUE, reset_in |-> 0, times |-> Append(times, clock)]

\* ------------------------------------------------------------------- buttons
\* the embed messages whose Apply / Leave buttons can be pressed
LiveEmbeds == {m \in 1..Len(embeds) : ~embeds[m].deleted /\ embeds[m].buttons}

\* the application messages whose Accept / Decline buttons can be pressed
LiveApplications == {i \in 1..Len(inbox) : inbox[i].buttons}

\* an application message after the edit that disabled its buttons: nothing
\* reads it again
Closed == [quest_id |-> NoId, applicant_id |-> NoId, outcome |-> "closed", buttons |-> FALSE]

\* _sync_quest_everywhere: the embed edit and the thread rename, each of which
\* may fail and is then only logged
SyncedEmbeds(quest, okEmbed) ==
  LET m == quest.embed_message_id IN
  IF quest.embed_channel_id # NoId /\ m # NoId /\ okEmbed /\ ~embeds[m].deleted
  THEN [embeds EXCEPT ![m].status = quest.status, ![m].roster = quest.roster]
  ELSE embeds

\* the rename nested under the embed update: no embed id, no rename
SyncedThreadsWithEmbed(quest, okThread) ==
  LET t == quest.thread_id
      new_title == build_thread_title(quest)
  IN IF quest.embed_message_id # NoId /\ t # NoId /\ okThread /\ threads[t].name # new_title
     THEN Renamed(threads, t, new_title)
     ELSE threads

SyncedThreads(quest, okThread) ==
  LET t == quest.thread_id
      new_title == build_thread_title(quest)
  IN IF t # NoId /\ okThread /\ threads[t].name # new_title
     THEN Renamed(threads, t, new_title)
     ELSE threads

\* removal that fills the gap with the last element
RemoveSwapped(s, x) ==
  IF \A k \in 1..Len(s) : s[k] # x THEN s
  ELSE LET i == CHOOSE k \in 1..Len(s) : s[k] = x /\ \A j \in 1..(k - 1) : s[j] # x
       IN [k \in 1..(Len(s) - 1) |-> IF k = i THEN s[Len(s)] ELSE s[k]]

\* list.remove(x): the first occurrence
RECURSIVE Remove(_, _)
Remove(s, x) ==
  IF s = <<>> THEN <<>>
  ELSE IF Head(s) = x THEN Tail(s)
  ELSE <<Head(s)>> \o Remove(Tail(s), x)

InSeq(x, s) == \E k \in 1..Len(s) : s[k] = x

CapacityIgnored(max_p, roster) == FALSE

CapacityOffByOne(max_p, roster) == max_p # 0 /\ Len(roster) > max_p

\* max_p and len(roster) >= max_p
AtCapacity(max_p, roster) == max_p # 0 /\ Len(roster) >= max_p

ApplicantOnRosterSkipped(applicant_id, roster) == FALSE

\* AcceptButton: self.applicant_id in roster
ApplicantOnRoster(applicant_id, roster) == InSeq(applicant_id, roster)

OwnQuestAllowed(uid, quest) == FALSE

\* ApplyButton: uid == quest.get("dm_id")
IsOwnQuest(uid, quest) == uid = quest.dm_id

StatusAfterRemovalReopens(status) == RECRUITING

\* LeaveButton and quest_kick: if quest["status"] == "FULL": "RECRUITING"
StatusAfterRemoval(status) == IF status = FULL THEN RECRUITING ELSE status

\* ApplyButton.callback, pressed by user uid on embed message m.
\* okDeliver: whether the application reaches the organizer's inbox.
ApplyButton(uid, m, okDeliver) ==
  LET quest_id == embeds[m].quest_id
      quest == quests[quest_id]
      rate == _check_apply_rate(uid, quest_id, now)
  IN
  /\ m \in LiveEmbeds
  /\ UNCHANGED <<quests, daily_counter, guild_configs, threads, embeds, now>>
  /\ IF quest_id \notin DOMAIN quests
     THEN /\ UNCHANGED <<inbox, apply_timestamps>>
     ELSE IF quest.status \in {COMPLETED, CANCELLED}
     THEN /\ UNCHANGED <<inbox, apply_timestamps>>
     ELSE IF IsOwnQuest(uid, quest)
     THEN /\ UNCHANGED <<inbox, apply_timestamps>>
     ELSE IF InSeq(uid, quest.roster)
     THEN /\ UNCHANGED <<inbox, apply_timestamps>>
     ELSE /\ apply_timestamps' = Put(apply_timestamps, <<uid, quest_id>>, rate.times)
          /\ IF ~rate.allowed
             THEN /\ UNCHANGED inbox
             ELSE IF ~okDeliver
             THEN /\ UNCHANGED inbox
             ELSE /\ Len(inbox) < MaxApps
                  /\ inbox' = Append(inbox,
                       [quest_id |-> quest_id, applicant_id |-> uid,
                        outcome |-> "pending", buttons |-> TRUE])

\* AcceptButton.callback, pressed on application message i.
\* okEdit: whether the edit that disables the buttons succeeds.
AcceptButton(i, okEmbed, okThread, okEdit) ==
  LET quest_id == inbox[i].quest_id
      applicant_id == inbox[i].applicant_id
      quest == quests[quest_id]
      max_p == quest.max_players
      roster == Append(quest.roster, applicant_id)
      accepted == [quest EXCEPT !.quest_id = quest_id,
                                !.roster = roster,
                                !.status = IF AtCapacity(max_p, roster) THEN FULL ELSE @]
  IN
  /\ i \in LiveApplications
  /\ UNCHANGED <<daily_counter, guild_configs, apply_timestamps, now>>
  /\ IF quest_id \notin DOMAIN quests
     THEN /\ UNCHANGED <<quests, threads, embeds, inbox>>
     ELSE IF ApplicantOnRoster(applicant_id, quest.roster)
     \* self._disable_buttons() does not exist: the buttons stay
     THEN /\ UNCHANGED <<quests, threads, embeds, inbox>>
     ELSE IF AtCapacity(max_p, quest.roster)
     THEN /\ UNCHANGED <<quests, threads, embeds, inbox>>
     ELSE /\ quests' = save_quest(quests, quest_id, accepted)
          /\ embeds' = SyncedEmbeds(accepted, okEmbed)
          /\ threads' = SyncedThreads(accepted, okThread)
          \* the applicant is on the roster; when the edit that disables the
          \* buttons fails, the message stays as it is
          /\ inbox' = [inbox EXCEPT ![i] =
                         IF okEdit THEN Closed ELSE [@ EXCEPT !.outcome = "accepted"]]

\* a decline that puts the applicant on the quest's waitlist
DeclineButtonListing(i, okEdit) ==
  LET quest_id == inbox[i].quest_id IN
  /\ i \in LiveApplications
  /\ quests' = IF quest_id \in DOMAIN quests
               THEN [quests EXCEPT ![quest_id].waitlist = Append(@, inbox[i].applicant_id)]
               ELSE quests
  /\ UNCHANGED <<daily_counter, guild_configs, threads, embeds, apply_timestamps, now>>
  /\ IF okEdit
     THEN inbox' = [inbox EXCEPT ![i] = Closed]
     ELSE UNCHANGED inbox

\* DeclineButton.callback, pressed on application message i
DeclineButton(i, okEdit) ==
  /\ i \in LiveApplications
  /\ UNCHANGED <<quests, daily_counter, guild_configs, threads, embeds,
                 apply_timestamps, now>>
  /\ IF okEdit
     THEN inbox' = [inbox EXCEPT ![i] = Closed]
     ELSE UNCHANGED inbox

\* LeaveButton.callback, pressed by user uid on embed message m
LeaveButton(uid, m, okEmbed, okThread) ==
  LET quest_id == embeds[m].quest_id
      quest == quests[quest_id]
      left == [quest EXCEPT !.roster = Remove(quest.roster, uid),
                            !.status = StatusAfterRemoval(@)]
  IN
  /\ m \in LiveEmbeds
  /\ UNCHANGED <<daily_counter, guild_configs, inbox, apply_timestamps, now>>
  /\ IF quest_id \notin DOMAIN quests
     THEN /\ UNCHANGED <<quests, threads, embeds>>
     ELSE IF InSeq(uid, quest.roster)
     THEN /\ quests' = save_quest(quests, quest_id, left)
          /\ embeds' = SyncedEmbeds(left, okEmbed)
          /\ threads' = SyncedThreads(left, okThread)
     ELSE /\ UNCHANGED <<quests, threads, embeds>>

\* /quest kick
quest_kick(actor, quest_id, uid, okEmbed, okThread) ==
  LET quest == quests[quest_id]
      kicked == [quest EXCEPT !.quest_id = quest_id,
                              !.roster = Remove(quest.roster, uid),
                              !.status = StatusAfterRemoval(@)]
  IN
  /\ UNCHANGED <<daily_counter, guild_configs, inbox, apply_timestamps, now>>
  /\ IF quest_id \notin DOMAIN quests
     THEN /\ UNCHANGED <<quests, threads, embeds>>
     ELSE IF ~_is_quest_manager(actor, quest)
     THEN /\ UNCHANGED <<quests, threads, embeds>>
     ELSE IF ~InSeq(uid, quest.roster)
     THEN /\ UNCHANGED <<quests, threads, embeds>>
     ELSE /\ quests' = save_quest(quests, quest_id, kicked)
          /\ embeds' = SyncedEmbeds(kicked, okEmbed)
          /\ threads' = SyncedThreads(kicked, okThread)

\* _set_status, behind /quest complete and /quest cancel
_set_status(actor, quest_id, new_status, okEmbed, okThread) ==
  LET quest == quests[quest_id]
      set == [quest EXCEPT !.quest_id = quest_id, !.status = new_status]
  IN
  /\ UNCHANGED <<daily_counter, guild_configs, inbox, apply_timestamps, now>>
  /\ IF quest_id \notin DOMAIN quests
     THEN /\ UNCHANGED <<quests, threads, embeds>>
     ELSE IF ~_is_quest_manager(actor, quest)
     THEN /\ UNCHANGED <<quests, threads, embeds>>
     ELSE /\ quests' = save_quest(quests, quest_id, set)
          /\ embeds' = SyncedEmbeds(set, okEmbed)
          /\ threads' = SyncedThreads(set, okThread)

\* max_players tested for truth, as the other arguments are
UpdatedWhenTruthy(quest, quest_id, status, mode, quest_type, system, has_max_players, max_players) ==
  [quest EXCEPT
     !.quest_id = quest_id,
     !.status = IF Truthy(status) THEN Upper(status) ELSE @,
     !.mode = IF Truthy(mode) THEN Upper(mode) ELSE @,
     !.quest_type = IF Truthy(quest_type) THEN Upper(quest_type) ELSE @,
     !.system = IF Truthy(system) THEN Upper(system) ELSE @,
     !.max_players = IF has_max_players /\ max_players # 0 THEN max_players ELSE @]

\* the record /quest update saves
Updated(quest, quest_id, status, mode, quest_type, system, has_max_players, max_players) ==
  [quest EXCEPT
     !.quest_id = quest_id,
     !.status = IF Truthy(status) THEN Upper(status) ELSE @,
     !.mode = IF Truthy(mode) THEN Upper(mode) ELSE @,
     !.quest_type = IF Truthy(quest_type) THEN Upper(quest_type) ELSE @,
     !.system = IF Truthy(system) THEN Upper(system) ELSE @,
     !.max_players = IF has_max_players THEN max_players ELSE @]

\* /quest update; an argument that is not supplied is None, max_players has
\* its own flag because 0 is a supplied value
quest_update(actor, quest_id, status, mode, quest_type, system, has_max_players, max_players, okEmbed, okThread) ==
  LET quest == quests[quest_id]
      updated == Updated(quest, quest_id, status, mode, quest_type, system,
                         has_max_players, max_players)
  IN
  /\ UNCHANGED <<daily_counter, guild_configs, inbox, apply_timestamps, now>>
  /\ IF quest_id \notin DOMAIN quests
     THEN /\ UNCHANGED <<quests, threads, embeds>>
     ELSE IF ~_is_quest_manager(actor, quest)
     THEN /\ UNCHANGED <<quests, threads, embeds>>
     ELSE /\ quests' = save_quest(quests, quest_id, updated)
          /\ embeds' = SyncedEmbeds(updated, okEmbed)
          /\ threads' = SyncedThreads(updated, okThread)

\* /quest delete
quest_delete(actor, quest_id, okEmbed, okThread) ==
  LET quest == quests[quest_id]
      m == quest.embed_message_id
      t == quest.thread_id
      deleted == [quest EXCEPT !.quest_id = quest_id, !.status = DELETED]
      new_title == build_thread_title(deleted)
  IN
  /\ UNCHANGED <<daily_counter, guild_configs, inbox, apply_timestamps, now>>
  /\ IF quest_id \notin DOMAIN quests
     THEN /\ UNCHANGED <<quests, threads, embeds>>
     ELSE IF ~_is_quest_manager(actor, quest)
     THEN /\ UNCHANGED <<quests, threads, embeds>>
     ELSE /\ embeds' =
               IF quest.embed_channel_id # NoId /\ m # NoId /\ okEmbed /\ ~embeds[m].deleted
               THEN [embeds EXCEPT ![m].status = DELETED, ![m].buttons = FALSE]
               ELSE embeds
          /\ threads' =
               IF t # NoId /\ okThread /\ threads[t].name # new_title
               THEN Renamed(threads, t, new_title)
               ELSE threads
          /\ quests' = delete_quest(quests, quest_id)

\* /stats clear, which the platform offers to holders of manage_guild only
stats_clear(g, confirmed) ==
  /\ UNCHANGED <<daily_counter, guild_configs, threads, embeds, inbox,
                 apply_timestamps, now>>
  /\ IF ~confirmed
     THEN /\ UNCHANGED quests
     ELSE /\ quests' = clear_guild_quests(quests, g)

\* the clock advances by d seconds
Tick(d) ==
  /\ now + d <= MaxTicks * APPLICATION_WINDOW
  /\ now' = now + d
  /\ UNCHANGED <<quests, daily_counter, guild_configs, threads, embeds, inbox,
                 apply_timestamps>>

\* ------------------------------------------------- handlers as coroutines
\* A handler runs without interruption up to a platform call (an await) and is
\* resumed, with the locals it had, when the call returns; other handlers run in
\* between.  A task is a suspended handler: the call it waits for, its local
\* quest record, the application message it was pressed on and its max_players
\* argument.
Task(at, quest, app, arg) == [at |-> at, quest |-> quest, app |-> app, arg |-> arg]

Suspend(task) == Append(tasks, task)

\* task k resumes and suspends again at the next call, or ends
Resume(k, at) == [tasks EXCEPT ![k].at = at]
ResumeWith(k, at, quest) == [tasks EXCEPT ![k].at = at, ![k].quest = quest]
Finish(k) == [j \in 1..(Len(tasks) - 1) |-> IF j < k THEN tasks[j] ELSE tasks[j + 1]]

Waiting(at) == {k \in 1..Len(tasks) : tasks[k].at = at}

\* Accept, Leave, Kick, complete / cancel and Update up to _sync_quest_everywhere:
\* the record is saved, no platform call has been made yet
AcceptSaved(i) ==
  /\ Len(tasks) < MaxTasks
  /\ AcceptButton(i, FALSE, FALSE, FALSE)
  /\ quests' # quests
  /\ tasks' = Suspend(Task("sync_embed", quests'[inbox[i].quest_id], i, 0))
  /\ UNCHANGED purged

LeaveSaved(uid, m) ==
  /\ Len(tasks) < MaxTasks
  /\ LeaveButton(uid, m, FALSE, FALSE)
  /\ quests' # quests
  /\ tasks' = Suspend(Task("sync_embed", quests'[embeds[m].quest_id], NoId, 0))
  /\ UNCHANGED purged

KickSaved(actor, quest_id, uid) ==
  /\ Len(tasks) < MaxTasks
  /\ quest_kick(actor, quest_id, uid, FALSE, FALSE)
  /\ quests' # quests
  /\ tasks' = Suspend(Task("sync_embed", quests'[quest_id], NoId, 0))
  /\ UNCHANGED purged

StatusSaved(actor, quest_id, new_status) ==
  /\ Len(tasks) < MaxTasks
  /\ _set_status(actor, quest_id, new_status, FALSE, FALSE)
  /\ quests' # quests
  /\ tasks' = Suspend(Task("sync_embed", quests'[quest_id], NoId, 0))
  /\ UNCHANGED purged

UpdateSaved(actor, quest_id, has_max_players, max_players) ==
  /\ Len(tasks) < MaxTasks
  /\ quest_update(actor, quest_id, None, None, None, None,
                  has_max_players, max_players, FALSE, FALSE)
  /\ quests' # quests
  /\ tasks' = Suspend(Task("sync_embed", quests'[quest_id], NoId, 0))
  /\ UNCHANGED purged

\* _sync_quest_everywhere resumes: msg.edit with the embed of the local record
SyncEmbed(k, okEmbed) ==
  /\ k \in Waiting("sync_embed")
  /\ embeds' = SyncedEmbeds(tasks[k].quest, okEmbed)
  /\ tasks' = Resume(k, "sync_thread")
  /\ UNCHANGED <<quests, daily_counter, guild_configs, threads, inbox,
                 apply_timestamps, now, purged>>

\* thread.edit with the title of the local record; AcceptButton goes on to
\* edit the application message, the other handlers end
SyncThread(k, okThread) ==
  /\ k \in Waiting("sync_thread")
  /\ threads' = SyncedThreads(tasks[k].quest, okThread)
  /\ tasks' = IF tasks[k].app # NoId THEN Resume(k, "edit_message") ELSE Finish(k)
  /\ UNCHANGED <<quests, daily_counter, guild_configs, embeds, inbox,
                 apply_timestamps, now, purged>>

\* AcceptButton: interaction.response.edit_message disables the buttons
EditMessage(k, okEdit) ==
  /\ k \in Waiting("edit_message")
  /\ inbox' = IF okEdit THEN [inbox EXCEPT ![tasks[k].app] = Closed] ELSE inbox
  /\ tasks' = Finish(k)
  /\ UNCHANGED <<quests, daily_counter, guild_configs, threads, embeds,
                 apply_timestamps, now, purged>>

\* on_thread_create up to thread.edit: the id is generated and the record saved
\* without a platform call in between
HookSaved(t, g, name, okHistory) ==
  /\ Len(tasks) < MaxTasks
  /\ on_thread_create(t, g, OwnerOf(t), ForumOf(g), name, BodyOf(t), okHistory, FALSE, FALSE)
  /\ tasks' = IF quests' = quests
              THEN tasks
              ELSE LET quest == quests'[generate_quest_id] IN
                   Suspend(Task(IF name # build_thread_title(quest)
                                THEN "hook_thread_edit" ELSE "hook_send",
                                quest, NoId, 0))
  /\ UNCHANGED purged

HookThreadEdit(k, okRename) ==
  /\ k \in Waiting("hook_thread_edit")
  /\ threads' = SyncedThreads(tasks[k].quest, okRename)
  /\ tasks' = IF tasks[k].quest.embed_channel_id # NoId
              THEN Resume(k, "hook_send") ELSE Finish(k)
  /\ UNCHANGED <<quests, daily_counter, guild_configs, embeds, inbox,
                 apply_timestamps, now, purged>>

\* embed_channel.send returns: the local record gets the message id and is
\* saved, and saved again with UNKNOWN when no system was found
HookSend(k, okSend) ==
  LET quest == tasks[k].quest
      posted == [quest EXCEPT !.embed_message_id = Len(embeds) + 1]
      final == IF ~Truthy(quest.system) THEN [posted EXCEPT !.system = UNKNOWN] ELSE posted
  IN
  /\ k \in Waiting("hook_send")
  /\ Len(embeds) < MaxEmbeds
  /\ tasks' = Finish(k)
  /\ UNCHANGED <<daily_counter, guild_configs, threads, inbox, apply_timestamps,
                 now, purged>>
  /\ IF okSend
     THEN /\ embeds' = Append(embeds, Rendering(quest))
          /\ quests' = save_quest(quests, quest.quest_id, final)
     ELSE /\ UNCHANGED <<embeds, quests>>

\* /quest recruit up to its first platform call
RecruitLoaded(actor, t, max_players) ==
  LET th == threads[t]
      embed_channel_id == get_guild_config(th.guild).embed_channel_id
      existing == get_quest_by_thread(t)
      old == [quests[existing] EXCEPT !.quest_id = existing]
      reposted == [old EXCEPT !.embed_channel_id = embed_channel_id,
                              !.embed_message_id = NoId,
                              !.max_players = IF max_players # 0 THEN max_players ELSE @]
      parsed == parse_title(th.name)
      fresh == NewQuest(generate_quest_id, th.guild, t, actor.id, parsed,
                        parsed.system, max_players, embed_channel_id)
  IN
  /\ Len(tasks) < MaxTasks
  /\ t \in DOMAIN threads
  /\ embed_channel_id # NoId
  /\ actor.id = th.owner \/ actor.manage_guild
  /\ UNCHANGED <<guild_configs, threads, embeds, inbox, apply_timestamps, now, purged>>
  /\ IF existing # NoId
     THEN /\ UNCHANGED daily_counter
          /\ IF old.embed_channel_id # NoId /\ old.embed_message_id # NoId
             \* the old embed message is fetched and deleted first
             THEN /\ tasks' = Suspend(Task("recruit_delete", old, NoId, max_players))
                  /\ UNCHANGED quests
             ELSE /\ quests' = save_quest(quests, existing, reposted)
                  /\ tasks' = Suspend(Task("recruit_send", reposted, NoId, max_players))
     ELSE /\ daily_counter < MaxQuests
          /\ daily_counter' = generate_quest_id
          /\ IF Truthy(parsed.system)
             THEN /\ quests' = save_quest(quests, fresh.quest_id, fresh)
                  /\ tasks' = Suspend(Task("recruit_send", fresh, NoId, max_players))
             \* the starter message is read and the user is messaged first
             ELSE /\ tasks' = Suspend(Task("recruit_history", fresh, NoId, max_players))
                  /\ UNCHANGED quests

\* old_msg.delete() returns: the record loaded at the start is pointed to the
\* new channel and saved
RecruitDelete(k, okDelete) ==
  LET old == tasks[k].quest
      m == old.embed_message_id
      reposted == [old EXCEPT !.embed_channel_id = get_guild_config(old.guild_id).embed_channel_id,
                              !.embed_message_id = NoId,
                              !.max_players = IF tasks[k].arg # 0 THEN tasks[k].arg ELSE @]
  IN
  /\ k \in Waiting("recruit_delete")
  /\ embeds' = IF okDelete /\ ~embeds[m].deleted
               THEN [embeds EXCEPT ![m] = Tombstone] ELSE embeds
  /\ quests' = save_quest(quests, old.quest_id, reposted)
  /\ tasks' = ResumeWith(k, "recruit_send", reposted)
  /\ UNCHANGED <<daily_counter, guild_configs, threads, inbox, apply_timestamps,
                 now, purged>>

\* thread.history and interaction.user.send return: the new record is saved
RecruitHistory(k, okHistory) ==
  LET quest == tasks[k].quest
      system == SystemAfterHistory(quest.system, threads[quest.thread_id].body, okHistory)
      saved == [quest EXCEPT !.system = IF Truthy(system) THEN system ELSE UNKNOWN]
  IN
  /\ k \in Waiting("recruit_history")
  /\ quests' = save_quest(quests, quest.quest_id, saved)
  /\ tasks' = ResumeWith(k, "recruit_send", saved)
  /\ UNCHANGED <<daily_counter, guild_configs, threads, embeds, inbox,
                 apply_timestamps, now, purged>>

\* embed_channel.send returns: the local record is saved with the message id
RecruitSend(k, okSend) ==
  LET quest == tasks[k].quest
      posted == [quest EXCEPT !.embed_message_id = Len(embeds) + 1]
  IN
  /\ k \in Waiting("recruit_send")
  /\ Len(embeds) < MaxEmbeds
  /\ UNCHANGED <<daily_counter, guild_configs, threads, inbox, apply_timestamps,
                 now, purged>>
  /\ IF okSend
     THEN /\ embeds' = Append(embeds, Rendering(quest))
          /\ quests' = save_quest(quests, quest.quest_id, posted)
          /\ tasks' = ResumeWith(k, "recruit_thread_edit", posted)
     ELSE /\ tasks' = Finish(k)
          /\ UNCHANGED <<embeds, quests>>

RecruitThreadEdit(k, okRename) ==
  /\ k \in Waiting("recruit_thread_edit")
  /\ threads' = IF okRename
                THEN Renamed(threads, tasks[k].quest.thread_id, build_thread_title(tasks[k].quest))
                ELSE threads
  /\ tasks' = Finish(k)
  /\ UNCHANGED <<quests, daily_counter, guild_configs, embeds, inbox,
                 apply_timestamps, now, purged>>

\* /quest delete up to its first platform call: the record is loaded, the
\* actor checked and the local copy marked DELETED
DeleteLoaded(actor, quest_id) ==
  LET quest == quests[quest_id]
      deleted == [quest EXCEPT !.quest_id = quest_id, !.status = DELETED]
  IN
  /\ Len(tasks) < MaxTasks
  /\ quest_id \in DOMAIN quests
  /\ _is_quest_manager(actor, quest)
  /\ tasks' = Suspend(Task(IF quest.embed_channel_id # NoId /\ quest.embed_message_id # NoId
                           THEN "delete_embed" ELSE "delete_thread",
                           deleted, NoId, 0))
  /\ UNCHANGED <<quests, daily_counter, guild_configs, threads, embeds, inbox,
                 apply_timestamps, now, purged>>

DeleteEmbed(k, okEmbed) ==
  LET m == tasks[k].quest.embed_message_id IN
  /\ k \in Waiting("delete_embed")
  /\ embeds' = IF okEmbed /\ ~embeds[m].deleted
               THEN [embeds EXCEPT ![m].status = DELETED, ![m].buttons = FALSE]
               ELSE embeds
  /\ tasks' = Resume(k, "delete_thread")
  /\ UNCHANGED <<quests, daily_counter, guild_configs, threads, inbox,
                 apply_timestamps, now, purged>>

\* thread.edit returns and storage.delete_quest removes the record
DeleteThread(k, okThread) ==
  LET quest == tasks[k].quest IN
  /\ k \in Waiting("delete_thread")
  /\ threads' = SyncedThreads(quest, okThread)
  /\ quests' = delete_quest(quests, quest.quest_id)
  /\ purged' = IF quest.quest_id \in DOMAIN quests THEN purged \cup {quest.quest_id} ELSE purged
  /\ tasks' = Finish(k)
  /\ UNCHANGED <<daily_counter, guild_configs, embeds, inbox, apply_timestamps, now>>

\* on_thread_create of a thread opened in the configured forum, up to
\* sleep_until; the record is filled in as the handler goes on
HookOpened(t, g, name) ==
  LET th == [guild |-> g, parent |-> ForumOf(g), owner |-> OwnerOf(t), name |-> name,
             body |-> BodyOf(t)]
      config == get_guild_config(g)
  IN
  /\ Len(tasks) < MaxTasks
  /\ t \notin DOMAIN threads
  /\ threads' = Put(threads, t, th)
  /\ tasks' = IF config.forum_channel_id = NoId \/ th.parent # config.forum_channel_id
              THEN tasks
              ELSE Suspend(Task("hook_sleep",
                     NewQuest(NoId, g, t, th.owner, parse_title(name), None, 0,
                              config.embed_channel_id), NoId, 0))
  /\ UNCHANGED <<quests, daily_counter, guild_configs, embeds, inbox, apply_timestamps,
                 now, purged>>

\* sleep_until returns: the title is parsed and thread.history is awaited
HookWoke(k) ==
  LET draft == tasks[k].quest
      parsed == parse_title(threads[draft.thread_id].name)
  IN
  /\ k \in Waiting("hook_sleep")
  /\ tasks' = ResumeWith(k, "hook_history",
                 NewQuest(NoId, draft.guild_id, draft.thread_id, draft.dm_id, parsed,
                          parsed.system, 0, draft.embed_channel_id))
  /\ UNCHANGED <<quests, daily_counter, guild_configs, threads, embeds, inbox,
                 apply_timestamps, now, purged>>

\* thread.history returns: the id is generated and the quest saved; the thread
\* is renamed and the embed posted, these calls succeeding
HookRead(k, okHistory) ==
  LET draft == tasks[k].quest
      t == draft.thread_id
      starter_body == IF okHistory THEN threads[t].body ELSE <<>>
      system == IF ~Truthy(draft.system) /\ starter_body # <<>>
                THEN parse_system_from_body(starter_body) ELSE draft.system
      quest_id == generate_quest_id
      quest == [draft EXCEPT !.quest_id = quest_id, !.system = system]
      posts == quest.embed_channel_id # NoId
      posted == IF posts THEN [quest EXCEPT !.embed_message_id = Len(embeds) + 1] ELSE quest
  IN
  /\ k \in Waiting("hook_history")
  /\ daily_counter < MaxCreated
  /\ daily_counter' = quest_id
  /\ quests' = save_quest(quests, quest_id,
                 IF Truthy(system) THEN posted ELSE [posted EXCEPT !.system = UNKNOWN])
  /\ threads' = SyncedThreads(quest, TRUE)
  /\ embeds' = IF posts THEN Append(embeds, Rendering(quest)) ELSE embeds
  /\ tasks' = Finish(k)
  /\ UNCHANGED <<guild_configs, inbox, apply_timestamps, now, purged>>

\* /quest register up to thread.history, which is read when the title names
\* no system; with a system in the title the quest is saved at once
RegisterChecked(actor, t, max_players) ==
  LET th == threads[t]
      parsed == parse_title(th.name)
      quest_id == generate_quest_id
      quest == NewQuest(quest_id, th.guild, t, actor.id, parsed, parsed.system,
                        max_players, NoId)
  IN
  /\ t \in DOMAIN threads
  /\ actor.id = th.owner \/ actor.manage_guild
  /\ get_quest_by_thread(t) = NoId
  /\ daily_counter < MaxCreated
  /\ daily_counter' = quest_id
  /\ IF Truthy(parsed.system)
     THEN /\ quests' = save_quest(quests, quest_id, quest)
          /\ threads' = Renamed(threads, t, build_thread_title(quest))
          /\ UNCHANGED tasks
     ELSE /\ Len(tasks) < MaxTasks
          /\ tasks' = Suspend(Task("register_history", quest, NoId, 0))
          /\ UNCHANGED <<quests, threads>>
  /\ UNCHANGED <<guild_configs, embeds, inbox, apply_timestamps, now, purged>>

\* thread.history returns in /quest register: the quest is saved
RegisterRead(k, okHistory) ==
  LET draft == tasks[k].quest
      t == draft.thread_id
      system == SystemAfterHistory(draft.system, threads[t].body, okHistory)
      quest == [draft EXCEPT !.system = IF Truthy(system) THEN system ELSE UNKNOWN]
  IN
  /\ k \in Waiting("register_history")
  /\ quests' = save_quest(quests, quest.quest_id, quest)
  /\ threads' = Renamed(threads, t, build_thread_title(quest))
  /\ tasks' = Finish(k)
  /\ UNCHANGED <<daily_counter, guild_configs, embeds, inbox, apply_timestamps, now, purged>>

\* /quest recruit in a thread without a quest, up to thread.history
RecruitChecked(actor, t, max_players) ==
  LET th == threads[t]
      embed_channel_id == get_guild_config(th.guild).embed_channel_id
      parsed == parse_title(th.name)
      quest_id == generate_quest_id
      quest == NewQuest(quest_id, th.guild, t, actor.id, parsed, parsed.system,
                        max_players, embed_channel_id)
  IN
  /\ t \in DOMAIN threads
  /\ embed_channel_id # NoId
  /\ actor.id = th.owner \/ actor.manage_guild
  /\ get_quest_by_thread(t) = NoId
  /\ daily_counter < MaxCreated
  /\ daily_counter' = quest_id
  /\ IF Truthy(parsed.system)
     THEN /\ quests' = save_quest(quests, quest_id,
                          [quest EXCEPT !.embed_message_id = Len(embeds) + 1])
          /\ embeds' = Append(embeds, Rendering(quest))
          /\ threads' = Renamed(threads, t, build_thread_title(quest))
          /\ UNCHANGED tasks
     ELSE /\ Len(tasks) < MaxTasks
          /\ tasks' = Suspend(Task("recruit_history", quest, NoId, 0))
          /\ UNCHANGED <<quests, threads, embeds>>
  /\ UNCHANGED <<guild_configs, inbox, apply_timestamps, now, purged>>

\* thread.history and the message to the organizer return in /quest recruit:
\* the quest is saved and its embed posted
RecruitRead(k, okHistory) ==
  LET draft == tasks[k].quest
      t == draft.thread_id
      system == SystemAfterHistory(draft.system, threads[t].body, okHistory)
      quest == [draft EXCEPT !.system = IF Truthy(system) THEN system ELSE UNKNOWN]
  IN
  /\ k \in Waiting("recruit_history")
  /\ quests' = save_quest(quests, quest.quest_id,
                 [quest EXCEPT !.embed_message_id = Len(embeds) + 1])
  /\ embeds' = Append(embeds, Rendering(quest))
  /\ threads' = Renamed(threads, t, build_thread_title(quest))
  /\ tasks' = Finish(k)
  /\ UNCHANGED <<daily_counter, guild_configs, inbox, apply_timestamps, now, purged>>

\* /stats clear CONFIRM
Cleared(g) ==
  /\ stats_clear(g, TRUE)
  /\ purged' = purged \cup (DOMAIN quests \ DOMAIN quests')
  /\ UNCHANGED tasks

\* ------------------------------------------------ the store, thread by thread
\* consecutive UTC days: 31 December 2026 and the days of January 2027
Dates ==
  [d \in 1..MaxDays |-> IF d = 1 THEN [day |-> 31, month |-> 12, year |-> 2026]
                        ELSE [day |-> d - 1, month |-> 1, year |-> 2027]]

DecimalDigits == <<"0", "1", "2", "3", "4", "5", "6", "7", "8", "9">>

\* str(n) of a natural number
RECURSIVE str(_)
str(n) == IF n < 10 THEN <<DecimalDigits[n + 1]>>
          ELSE str(n \div 10) \o <<DecimalDigits[(n % 10) + 1]>>

\* str.zfill(width): zeros on the left up to the width, nothing cut off
RECURSIVE zfill(_, _)
zfill(s, width) == IF Len(s) >= width THEN s ELSE zfill(<<"0">> \o s, width)

\* %d, %m and %y of strftime
TwoDigits(n) == <<DecimalDigits[((n \div 10) % 10) + 1], DecimalDigits[(n % 10) + 1]>>

\* now.strftime("%d%m%y")
strftime(date) == TwoDigits(date.day) \o TwoDigits(date.month) \o TwoDigits(date.year)

\* counters.get(date_key, 0)
CounterOf(data, date_key) ==
  IF date_key \in DOMAIN data.daily_counter THEN data.daily_counter[date_key] ELSE 0

\* f"{date_key}-{str(current).zfill(4)}"
QuestIdOf(date_key, current) == date_key \o <<"-">> \o zfill(str(current), 4)

\* the id generate_quest_id returns from the loaded document on a day
GeneratedId(data, date) ==
  QuestIdOf(strftime(date), CounterOf(data, strftime(date)) + 1)

\* the record save_quest is called with: the store does not look into it
QuestData(quest_id) == [quest_id |-> quest_id, guild_id |-> 1]

SetupConfig(g) == [forum_channel_id |-> ForumOf(g), embed_channel_id |-> BoardOf(g)]

ClearedWithCounters(data, guild_id) ==
  [data EXCEPT !.quests = clear_guild_quests(@, guild_id), !.daily_counter = <<>>]

\* clear_guild_quests on the loaded document
ClearedDocument(data, guild_id) == [data EXCEPT !.quests = clear_guild_quests(@, guild_id)]

\* the characters of quest ids in the order of their code points
IdAlphabet == <<"-", "0", "1", "2", "3", "4", "5", "6", "7", "8", "9">>

ord(ch) == CHOOSE k \in 1..Len(IdAlphabet) : IdAlphabet[k] = ch

RECURSIVE StrLess(_, _)
\* a < b of two str
StrLess(a, b) ==
  IF b = <<>> THEN FALSE
  ELSE IF a = <<>> THEN TRUE
  ELSE IF Head(a) # Head(b) THEN ord(Head(a)) < ord(Head(b))
  ELSE StrLess(Tail(a), Tail(b))

RECURSIVE SortedReverse(_)
\* sorted(keys, reverse=True) of distinct str
SortedReverse(keys) ==
  IF keys = {} THEN <<>>
  ELSE LET top == CHOOSE k \in keys : \A other \in keys \ {k} : StrLess(other, k)
       IN <<top>> \o SortedReverse(keys \ {top})

\* _get_guild_quests on the document get_all_quests has loaded
_get_guild_quests(data, guild_id) ==
  LET ids == SortedReverse({qid \in DOMAIN data.quests : data.quests[qid].guild_id = guild_id})
  IN [i \in 1..Len(ids) |-> [data.quests[ids[i]] EXCEPT !.quest_id = ids[i]]]

\* what a store function makes of the loaded document before _save
Modified(op, arg, data, date) ==
  CASE op = "generate_quest_id" ->
         [data EXCEPT !.daily_counter =
            Put(@, strftime(date), CounterOf(data, strftime(date)) + 1)]
    [] op = "save_quest" -> [data EXCEPT !.quests = save_quest(@, arg, QuestData(arg))]
    [] op = "delete_quest" -> [data EXCEPT !.quests = delete_quest(@, arg)]
    [] op = "save_guild_config" -> [data EXCEPT !.guild_configs = Put(@, arg, SetupConfig(arg))]
    [] op = "clear_guild_quests" -> ClearedDocument(data, arg)
    [] OTHER -> data

Saving == {"generate_quest_id", "save_quest", "delete_quest", "save_guild_config",
           "clear_guild_quests"}

Lookups == {"get_quest"}

\* the calls that are kept in the record
Recorded == {"generate_quest_id", "delete_quest", "clear_guild_quests"}

Issued == SelectSeq(calls, LAMBDA e : e.op = "generate_quest_id")

IssuedIds == {Issued[i].ret : i \in 1..Len(Issued)}

LockIgnored(holder) == TRUE

\* threading.Lock: acquire returns when nobody is inside
Free(holder) == holder = NoId

\* the process starts, with the document earlier runs have left on disk
Startup(document) ==
  /\ \A c \in Callers : callers[c].pc = "down"
  /\ disk' = document
  /\ serial' = document
  /\ callers' = [c \in Callers |-> Idle]
  /\ UNCHANGED <<_lock, utc_date, calls>>

Restarts == SelectSeq(calls, LAMBDA e : e.op = "restart")

Removing == {"delete_quest", "clear_guild_quests"}

Removals == SelectSeq(calls, LAMBDA e : e.op \in Removing)

\* the threads that are inside one of the functions
Running(ops) == {c \in Callers : callers[c].pc \in {"waiting", "loaded"} /\ callers[c].op \in ops}

\* a thread calls a store function and reaches "with _lock"; the threads are
\* alike, and the free one with the smallest number takes the call
Enter(c, op, arg) ==
  /\ callers[c].pc = "idle"
  /\ \A other \in Callers : other < c => callers[other].pc # "idle"
  /\ op = "generate_quest_id"
     => Len(Issued) + Cardinality(Running({"generate_quest_id"})) < MaxIssued
  /\ op \in Removing => Len(Removals) + Cardinality(Running(Removing)) < MaxRemovals
  /\ callers' = [callers EXCEPT ![c] = [pc |-> "waiting", op |-> op, arg |-> arg,
                                       data |-> EmptyDocument]]
  /\ UNCHANGED <<disk, _lock, utc_date, calls, serial>>

\* with _lock: data = _load()
Acquire(c) ==
  /\ callers[c].pc = "waiting"
  /\ Free(_lock)
  /\ _lock' = c
  /\ callers' = [callers EXCEPT ![c].pc = "loaded", ![c].data = disk]
  /\ UNCHANGED <<disk, utc_date, calls, serial>>

\* the function changes its data, calls _save(data) and returns, which ends
\* the with block; generate_quest_id reads the clock after the load
Save(c) ==
  LET frame == callers[c]
      ret == IF frame.op = "generate_quest_id"
             THEN GeneratedId(frame.data, Dates[utc_date]) ELSE <<>>
  IN
  /\ frame.pc = "loaded"
  /\ frame.op \in Saving
  /\ disk' = Modified(frame.op, frame.arg, frame.data, Dates[utc_date])
  /\ serial' = Modified(frame.op, frame.arg, serial, Dates[utc_date])
  /\ calls' = IF frame.op \in Recorded
              THEN Append(calls, [op |-> frame.op, ret |-> ret]) ELSE calls
  /\ _lock' = NoId
  /\ callers' = [callers EXCEPT ![c] = Idle]
  /\ UNCHANGED utc_date

\* a lookup returns what it found in its data, which ends the with block
Return(c) ==
  /\ callers[c].pc = "loaded"
  /\ callers[c].op \in Lookups
  /\ _lock' = NoId
  /\ callers' = [callers EXCEPT ![c] = Idle]
  /\ UNCHANGED <<disk, utc_date, calls, serial>>

\* midnight UTC
NextDay ==
  /\ utc_date < MaxDays
  /\ utc_date' = utc_date + 1
  /\ UNCHANGED <<disk, _lock, callers, calls, serial>>

\* the process ends, whatever its threads were doing, and starts again: the
\* lock and the threads are new, the file is the one on disk
Restart ==
  /\ \E c \in Callers : callers[c].pc # "down"
  /\ Len(Restarts) < MaxRestarts
  /\ callers' = [c \in Callers |-> Idle]
  /\ _lock' = NoId
  /\ calls' = Append(calls, [op |-> "restart", ret |-> <<>>])
  /\ UNCHANGED <<disk, utc_date, serial>>

\* ------------------------------------------------------------ specification
\* user 1 opens thread 1, user 3 holds manage_guild, user 2 does neither
Admin == 3
Actors == {[id |-> u, manage_guild |-> (u = Admin)] : u \in Users}
QuestIds == 1..MaxQuests
EmbedIds == 1..MaxEmbeds
ApplicationIds == 1..MaxApps
UpdateStatusArgs == {None, RECRUITING, FULL}
\* outbound calls that succeed, and outbound calls that may fail
Ok == {TRUE}
MayFail == BOOLEAN

ThreadCreated ==
  \E t \in ThreadIds, g \in Guilds, name \in ThreadNames,
     okHistory, okRename, okSend \in Ok :
    on_thread_create(t, g, OwnerOf(t), ForumOf(g), name, BodyOf(t),
                     okHistory, okRename, okSend)

Register ==
  \E actor \in Actors, t \in ThreadIds, max_players \in MaxPlayersArgs,
     okHistory, okRename \in Ok :
    quest_register(actor, t, max_players, okHistory, okRename)

Recruit ==
  \E actor \in Actors, t \in ThreadIds, max_players \in MaxPlayersArgs,
     okHistory, okDelete, okSend, okRename \in Ok :
    quest_recruit(actor, t, max_players, okHistory, okDelete, okSend, okRename)

Apply ==
  \E uid \in Users, m \in EmbedIds, okDeliver \in Ok : ApplyButton(uid, m, okDeliver)

Accept ==
  \E i \in ApplicationIds, okEmbed, okThread \in Ok, okEdit \in MayFail :
    AcceptButton(i, okEmbed, okThread, okEdit)

Decline == \E i \in ApplicationIds, okEdit \in MayFail : DeclineButton(i, okEdit)

Leave ==
  \E uid \in Users, m \in EmbedIds, okEmbed, okThread \in Ok :
    LeaveButton(uid, m, okEmbed, okThread)

Kick ==
  \E actor \in Actors, q \in QuestIds, uid \in Users, okEmbed, okThread \in Ok :
    quest_kick(actor, q, uid, okEmbed, okThread)

SetStatus ==
  \E actor \in Actors, q \in QuestIds, s \in {COMPLETED, CANCELLED},
     okEmbed, okThread \in Ok :
    _set_status(actor, q, s, okEmbed, okThread)

Update ==
  \E actor \in Actors, q \in QuestIds, status \in UpdateStatusArgs,
     has_max_players \in BOOLEAN, max_players \in MaxPlayersArgs,
     okEmbed, okThread \in Ok :
    quest_update(actor, q, status, None, None, None,
                 has_max_players, max_players, okEmbed, okThread)

Delete ==
  \E actor \in Actors, q \in QuestIds, okEmbed, okThread \in Ok :
    quest_delete(actor, q, okEmbed, okThread)

Clear == \E g \in Guilds, confirmed \in BOOLEAN : stats_clear(g, confirmed)

Next ==
  \/ \E g \in Guilds : Setup(g) /\ UNCHANGED ext
  \/ ThreadCreated /\ UNCHANGED ext
  \/ Register /\ UNCHANGED ext
  \/ Recruit /\ UNCHANGED ext
  \/ Apply /\ UNCHANGED ext
  \/ Accept /\ UNCHANGED ext
  \/ Decline /\ UNCHANGED ext
  \/ Leave /\ UNCHANGED ext
  \/ Kick /\ UNCHANGED ext
  \/ SetStatus /\ UNCHANGED ext
  \/ Update /\ UNCHANGED ext
  \/ Delete /\ UNCHANGED ext
  \/ Clear /\ UNCHANGED ext

Spec == Init /\ [][Next]_vars

\* The handlers with platform calls that may fail: posting, editing and
\* deleting embed messages, renaming threads, editing the application message.
\* The commands are issued by the holder of manage_guild.
Admins == {actor \in Actors : actor.manage_guild}
FewPlayersArgs == {0, 1}

ThreadCreatedFaulty ==
  \E t \in ThreadIds, g \in Guilds, name \in ThreadNames,
     okHistory \in Ok, okRename, okSend \in MayFail :
    on_thread_create(t, g, OwnerOf(t), ForumOf(g), name, BodyOf(t),
                     okHistory, okRename, okSend)

RecruitFaulty ==
  \E actor \in Admins, t \in ThreadIds, max_players \in FewPlayersArgs,
     okHistory \in Ok, okDelete, okSend, okRename \in MayFail :
    quest_recruit(actor, t, max_players, okHistory, okDelete, okSend, okRename)

AcceptFaulty ==
  \E i \in ApplicationIds, okEmbed, okThread, okEdit \in MayFail :
    AcceptButton(i, okEmbed, okThread, okEdit)

LeaveFaulty ==
  \E uid \in Users, m \in EmbedIds, okEmbed, okThread \in MayFail :
    LeaveButton(uid, m, okEmbed, okThread)

KickFaulty ==
  \E actor \in Admins, q \in QuestIds, uid \in Users, okEmbed, okThread \in MayFail :
    quest_kick(actor, q, uid, okEmbed, okThread)

SetStatusFaulty ==
  \E actor \in Admins, q \in QuestIds, s \in {COMPLETED},
     okEmbed, okThread \in MayFail :
    _set_status(actor, q, s, okEmbed, okThread)

UpdateFaulty ==
  \E actor \in Admins, q \in QuestIds, max_players \in FewPlayersArgs,
     okEmbed, okThread \in MayFail :
    quest_update(actor, q, None, None, None, None,
                 TRUE, max_players, okEmbed, okThread)

DeleteFaulty ==
  \E actor \in Admins, q \in QuestIds, okEmbed, okThread \in MayFail :
    quest_delete(actor, q, okEmbed, okThread)

NextFaulty ==
  \/ \E g \in Guilds : Setup(g) /\ UNCHANGED ext
  \/ ThreadCreatedFaulty /\ UNCHANGED ext
  \/ RecruitFaulty /\ UNCHANGED ext
  \/ Apply /\ UNCHANGED ext
  \/ AcceptFaulty /\ UNCHANGED ext
  \/ LeaveFaulty /\ UNCHANGED ext
  \/ KickFaulty /\ UNCHANGED ext
  \/ SetStatusFaulty /\ UNCHANGED ext
  \/ UpdateFaulty /\ UNCHANGED ext
  \/ DeleteFaulty /\ UNCHANGED ext

SpecFaulty == Init /\ [][NextFaulty]_vars

\* The rate limiter under a moving clock: applications whose delivery to the
\* organizer may fail, and time steps that put earlier attempts one second
\* inside and exactly on the edge of the window.
TickSteps == {APPLICATION_WINDOW \div 2 - 1, APPLICATION_WINDOW \div 2}

ApplyUndelivered ==
  \E uid \in Users, m \in EmbedIds, okDeliver \in MayFail : ApplyButton(uid, m, okDeliver)

Clock == \E d \in TickSteps : Tick(d)

NextRate ==
  \/ \E g \in Guilds : Setup(g) /\ UNCHANGED ext
  \/ ThreadCreated /\ UNCHANGED ext
  \/ ApplyUndelivered /\ UNCHANGED ext
  \/ Clock /\ UNCHANGED ext

SpecRate == Init /\ [][NextRate]_vars

\* Handlers as coroutines: every handler runs up to its next outbound call in
\* one step, and every outbound call succeeds. First the handlers that create,
\* re-post, close, edit and remove quests.
HookStarts ==
  \E t \in ThreadIds, g \in Guilds, name \in ThreadNames, okHistory \in Ok :
    HookSaved(t, g, name, okHistory)

RecruitStarts ==
  \E actor \in Actors, t \in ThreadIds, max_players \in FewPlayersArgs :
    RecruitLoaded(actor, t, max_players)

StatusStarts == \E actor \in Admins, q \in QuestIds : StatusSaved(actor, q, COMPLETED)

UpdateStarts ==
  \E actor \in Admins, q \in QuestIds, max_players \in FewPlayersArgs :
    UpdateSaved(actor, q, TRUE, max_players)

DeleteStarts == \E actor \in Admins, q \in QuestIds : DeleteLoaded(actor, q)

Synced ==
  \E k \in 1..MaxTasks, ok \in Ok :
    \/ SyncEmbed(k, ok)
    \/ SyncThread(k, ok)

Resumes ==
  \E k \in 1..MaxTasks, ok \in Ok :
    \/ HookThreadEdit(k, ok)
    \/ HookSend(k, ok)
    \/ RecruitDelete(k, ok)
    \/ RecruitHistory(k, ok)
    \/ RecruitSend(k, ok)
    \/ RecruitThreadEdit(k, ok)
    \/ DeleteEmbed(k, ok)
    \/ DeleteThread(k, ok)

NextAsync ==
  \/ \E g \in Guilds : Setup(g) /\ UNCHANGED ext
  \/ HookStarts /\ UNCHANGED pool
  \/ RecruitStarts /\ UNCHANGED pool
  \/ StatusStarts /\ UNCHANGED pool
  \/ UpdateStarts /\ UNCHANGED pool
  \/ DeleteStarts /\ UNCHANGED pool
  \/ Synced /\ UNCHANGED pool
  \/ Resumes /\ UNCHANGED pool
  \/ \E g \in Guilds : Cleared(g) /\ UNCHANGED pool

SpecAsync == Init /\ [][NextAsync]_vars

\* Then the handlers that change a roster, on quests the hook has posted.
AcceptStarts == \E i \in ApplicationIds : AcceptSaved(i)

LeaveStarts == \E uid \in Users, m \in EmbedIds : LeaveSaved(uid, m)

KickStarts == \E actor \in Admins, q \in QuestIds, uid \in Users : KickSaved(actor, q, uid)

Edited == \E k \in 1..MaxTasks, ok \in Ok : EditMessage(k, ok)

NextRoster ==
  \/ \E g \in Guilds : Setup(g) /\ UNCHANGED ext
  \/ ThreadCreated /\ UNCHANGED ext
  \/ Apply /\ UNCHANGED ext
  \/ AcceptStarts /\ UNCHANGED pool
  \/ LeaveStarts /\ UNCHANGED pool
  \/ KickStarts /\ UNCHANGED pool
  \/ UpdateStarts /\ UNCHANGED pool
  \/ Synced /\ UNCHANGED pool
  \/ Edited /\ UNCHANGED pool

SpecRoster == Init /\ [][NextRoster]_vars

\* The store under threads: calls of the store functions step by step, two
\* days, and the documents an earlier run may have left: none, or one of a day
\* on which 9998 ids were generated.
DocumentsOnDisk ==
  {EmptyDocument,
   [EmptyDocument EXCEPT !.daily_counter = Put(<<>>, strftime(Dates[1]), 9998)]}

Called ==
  \E c \in Callers :
    \/ Enter(c, "generate_quest_id", NoId)
    \/ \E quest_id \in IssuedIds : Enter(c, "save_quest", quest_id)
    \/ \E quest_id \in DOMAIN disk.quests :
         \/ Enter(c, "get_quest", quest_id)
         \/ Enter(c, "delete_quest", quest_id)
    \/ \E g \in Guilds :
         \/ Enter(c, "save_guild_config", g)
         \/ Enter(c, "clear_guild_quests", g)

NextStore ==
  \/ \E document \in DocumentsOnDisk : Startup(document) /\ UNCHANGED bot
  \/ Called /\ UNCHANGED bot
  \/ \E c \in Callers : Acquire(c) /\ UNCHANGED bot
  \/ \E c \in Callers : Save(c) /\ UNCHANGED bot
  \/ \E c \in Callers : Return(c) /\ UNCHANGED bot
  \/ NextDay /\ UNCHANGED bot
  \/ Restart /\ UNCHANGED bot

SpecStore == Init /\ [][NextStore]_vars

\* Thread titles: threads are opened under every title of up to MaxPieces
\* pieces, which are tags of each kind, in either case, an unknown tag, a tag
\* of blanks, single brackets, a blank and a word.
TitlePieces ==
  {<<"[","f","u","l","l","]">>, <<"[","O","N","L","I","N","E","]">>,
   <<"[","o","n","e","s","h","o","t","]">>, <<"[","d","n","d","]">>,
   <<"[","x","]">>, <<"[", " ", "]">>, <<"[">>, <<"]">>, <<" ">>, <<"b">>}

RECURSIVE TitlesOf(_)
\* the titles of exactly n pieces
TitlesOf(n) ==
  IF n = 0 THEN {<<>>}
  ELSE {piece \o rest : piece \in TitlePieces, rest \in TitlesOf(n - 1)}

Titles == UNION {TitlesOf(n) : n \in 1..MaxPieces}

\* the title of the documented example
LostMine ==
  <<"[","R","E","C","R","U","I","T","I","N","G","]"," ","[","O","N","L","I","N","E","]"," ",
    "[","O","N","E","S","H","O","T","]"," ","[","D","&","D","]"," ",
    "L","o","s","t"," ","M","i","n","e"," ","o","f"," ",
    "P","h","a","n","d","e","l","v","e","r">>

TitledThreadCreated ==
  \E t \in ThreadIds, g \in Guilds, name \in Titles \cup {LostMine}, okHistory, okSend \in Ok,
     okRename \in MayFail :
    on_thread_create(t, g, OwnerOf(t), ForumOf(g), name, BodyOf(t),
                     okHistory, okRename, okSend)

NextTitles ==
  \/ \E g \in Guilds : Setup(g) /\ UNCHANGED ext
  \/ TitledThreadCreated /\ UNCHANGED ext
  \/ Register /\ UNCHANGED ext
  \/ Recruit /\ UNCHANGED ext

SpecTitles == Init /\ [][NextTitles]_vars

\* The commands that edit stored quests, with every argument they take. Two
\* threads were opened in the guild after /setup, three players were accepted
\* into the first quest and one into the second, which was limited to two.
Members == {2, 3, 4}
Organizer == 1
FATE == <<"F","A","T","E">>

Boarded(q, roster) ==
  [NewQuest(q, 1, q, Organizer, parse_title(<<"[", "d", "n", "d", "]", " ", "b">>),
            <<"D", "N", "D">>, IF q = 2 THEN 2 ELSE 0, BoardOf(1))
     EXCEPT !.roster = roster, !.embed_message_id = q]

InitEdits ==
  /\ quests = <<Boarded(1, <<4, 2, 3>>), Boarded(2, <<2>>)>>
  /\ daily_counter = 2
  /\ guild_configs = [g \in Guilds |-> SetupConfig(g)]
  /\ threads = [t \in {1, 2} |->
        [guild |-> 1, parent |-> ForumOf(1), owner |-> Organizer,
         name |-> build_thread_title(Boarded(t, <<>>)), body |-> <<>>]]
  /\ embeds = <<Rendering(Boarded(1, <<4, 2, 3>>)), Rendering(Boarded(2, <<2>>))>>
  /\ inbox = <<>>
  /\ apply_timestamps = <<>>
  /\ now = 0
  /\ tasks = <<>>
  /\ purged = {}
  /\ disk = EmptyDocument
  /\ _lock = NoId
  /\ callers = [c \in Callers |-> Down]
  /\ utc_date = 1
  /\ calls = <<>>
  /\ serial = EmptyDocument

\* /quest update arguments: none and each one alone; the system
\* is free text and max_players any int
NoArgs ==
  [status |-> None, mode |-> None, quest_type |-> None, system |-> None,
   has_max_players |-> FALSE, max_players |-> 0]
UpdateArgs ==
  { NoArgs,
    [NoArgs EXCEPT !.status = FULL],
    [NoArgs EXCEPT !.mode = ONLINE],
    [NoArgs EXCEPT !.quest_type = ONESHOT],
    [NoArgs EXCEPT !.system = <<"f", "a", "t", "e">>],
    [NoArgs EXCEPT !.has_max_players = TRUE],
    [NoArgs EXCEPT !.has_max_players = TRUE, !.max_players = 2],
    [NoArgs EXCEPT !.has_max_players = TRUE, !.max_players = -1] }

UpdateWith(actor, q, args) ==
  quest_update(actor, q, args.status, args.mode, args.quest_type, args.system,
               args.has_max_players, args.max_players, TRUE, TRUE)

\* the organizer of both quests and a member without rights
Editors == {actor \in Actors : actor.id \in {Organizer, 2}}
Managers == {actor \in Actors : actor.id = Organizer}

\* the first quest is updated with every argument, the second only has its
\* limit lifted
UpdateEdits ==
  \E actor \in Managers :
    \/ \E args \in UpdateArgs : UpdateWith(actor, 1, args)
    \/ UpdateWith(actor, 2, [NoArgs EXCEPT !.has_max_players = TRUE])

SetStatusEdits ==
  \E actor \in Managers, q \in DOMAIN quests, s \in {COMPLETED} :
    _set_status(actor, q, s, TRUE, TRUE)

KickEdits ==
  \E actor \in Managers, q \in DOMAIN quests, uid \in Members \cup {Organizer} :
    quest_kick(actor, q, uid, TRUE, TRUE)

NextEdits ==
  \/ UpdateEdits /\ UNCHANGED ext
  \/ SetStatusEdits /\ UNCHANGED ext
  \/ KickEdits /\ UNCHANGED ext

SpecEdits == InitEdits /\ [][NextEdits]_vars

\* The three handlers that create quests, as coroutines on one thread.
Opened ==
  \E t \in ThreadIds, g \in Guilds, name \in ThreadNames : HookOpened(t, g, name)

CreatorsResumed ==
  \E k \in 1..MaxTasks, okHistory \in Ok :
    \/ HookWoke(k)
    \/ HookRead(k, okHistory)
    \/ RegisterRead(k, okHistory)
    \/ RecruitRead(k, okHistory)

RegisterStarts ==
  \E actor \in Actors, t \in ThreadIds, max_players \in FewPlayersArgs :
    RegisterChecked(actor, t, max_players)

RecruitNewStarts ==
  \E actor \in Actors, t \in ThreadIds, max_players \in FewPlayersArgs :
    RecruitChecked(actor, t, max_players)

NextCreate ==
  \/ \E g \in Guilds : Setup(g) /\ UNCHANGED ext
  \/ Opened /\ UNCHANGED pool
  \/ CreatorsResumed /\ UNCHANGED pool
  \/ RegisterStarts /\ UNCHANGED pool
  \/ RecruitNewStarts /\ UNCHANGED pool

SpecCreate == Init /\ [][NextCreate]_vars

\* The rate limiter with two quests on the board and two applicants, one of
\* whom applies to both quests.
Applicants == {2, 3}
Attempts == {<<2, 1>>, <<2, 2>>, <<3, 1>>}

InitLimiter ==
  /\ quests = <<Boarded(1, <<>>), Boarded(2, <<>>)>>
  /\ daily_counter = 2
  /\ guild_configs = [g \in Guilds |-> SetupConfig(g)]
  /\ threads = [t \in {1, 2} |->
        [guild |-> 1, parent |-> ForumOf(1), owner |-> Organizer,
         name |-> build_thread_title(Boarded(t, <<>>)), body |-> <<>>]]
  /\ embeds = <<Rendering(Boarded(1, <<>>)), Rendering(Boarded(2, <<>>))>>
  /\ inbox = <<>>
  /\ apply_timestamps = <<>>
  /\ now = 0
  /\ tasks = <<>>
  /\ purged = {}
  /\ disk = EmptyDocument
  /\ _lock = NoId
  /\ callers = [c \in Callers |-> Down]
  /\ utc_date = 1
  /\ calls = <<>>
  /\ serial = EmptyDocument

\* the message to the organizer is not delivered, which the limiter does not
\* wait for
ApplyEither ==
  \E attempt \in Attempts : ApplyButton(attempt[1], attempt[2], FALSE)

HalfWindow == Tick(APPLICATION_WINDOW \div 2)

NextLimiter ==
  \/ ApplyEither /\ UNCHANGED ext
  \/ HalfWindow /\ UNCHANGED ext

SpecLimiter == InitLimiter /\ [][NextLimiter]_vars

\* /stats clear in a bot that serves two guilds: two quests were opened in the
\* first guild and one in the second, and players were accepted.
TwoGuilds == {1, 2}

BoardedIn(g, q, roster) ==
  [Boarded(q, roster) EXCEPT !.guild_id = g, !.embed_channel_id = BoardOf(g)]

InitClear ==
  /\ quests = <<BoardedIn(1, 1, <<4, 2, 3>>), BoardedIn(1, 2, <<2>>), BoardedIn(2, 3, <<3, 4>>)>>
  /\ daily_counter = 3
  /\ guild_configs = [g \in TwoGuilds |-> SetupConfig(g)]
  /\ threads = [t \in {1, 2, 3} |->
        [guild |-> IF t = 3 THEN 2 ELSE 1, parent |-> ForumOf(IF t = 3 THEN 2 ELSE 1),
         owner |-> Organizer, name |-> build_thread_title(Boarded(t, <<>>)), body |-> <<>>]]
  /\ embeds = <<Rendering(BoardedIn(1, 1, <<4, 2, 3>>)), Rendering(BoardedIn(1, 2, <<2>>)),
                Rendering(BoardedIn(2, 3, <<3, 4>>))>>
  /\ inbox = <<>>
  /\ apply_timestamps = <<>>
  /\ now = 0
  /\ tasks = <<>>
  /\ purged = {}
  /\ disk = EmptyDocument
  /\ _lock = NoId
  /\ callers = [c \in Callers |-> Down]
  /\ utc_date = 1
  /\ calls = <<>>
  /\ serial = EmptyDocument

ClearEither == \E g \in TwoGuilds, confirmed \in BOOLEAN : stats_clear(g, confirmed)

NextClear ==
  \/ ClearEither /\ UNCHANGED ext
  \/ SetStatusEdits /\ UNCHANGED ext
  \/ KickEdits /\ UNCHANGED ext

SpecClear == InitClear /\ [][NextClear]_vars

\* ---------------------------------------------------------------- properties
NoDuplicates(s) == \A j, k \in 1..Len(s) : s[j] = s[k] => j = k

Stored == DOMAIN quests

\* the quests a step keeps in the store
Kept == DOMAIN quests \cap DOMAIN quests'

AcceptPressed(i) ==
  \E okEmbed, okThread, okEdit \in BOOLEAN : AcceptButton(i, okEmbed, okThread, okEdit)

DeclinePressed(i) == \E okEdit \in BOOLEAN : DeclineButton(i, okEdit)

\* C1: every stored quest with max_players > 0 has len(roster) <= max_players.
C1_RosterWithinCapacity ==
  \A q \in Stored :
    quests[q].max_players > 0 => Len(quests[q].roster) <= quests[q].max_players

\* C2: after every step that changes a stored roster (Accept, Leave, Kick), the
\* status is FULL if and only if max_players > 0 and len(roster) >= max_players.
C2_FullIffAtCapacity ==
  [][\A q \in Kept :
       quests'[q].roster # quests[q].roster =>
         (quests'[q].status = FULL <=>
            (quests'[q].max_players > 0
             /\ Len(quests'[q].roster) >= quests'[q].max_players))]_vars

\* C3: in every stored quest the roster holds no user twice, the waitlist holds
\* no user twice, and no user is in both.
C3_RosterWaitlistDisjointNoDuplicates ==
  \A q \in Stored :
    /\ NoDuplicates(quests[q].roster)
    /\ NoDuplicates(quests[q].waitlist)
    /\ \A u \in Users : ~(InSeq(u, quests[q].roster) /\ InSeq(u, quests[q].waitlist))

\* a user on the roster still has a pending application with live buttons
C3_Witness ==
  \E i \in LiveApplications :
    /\ inbox[i].outcome = "pending"
    /\ inbox[i].quest_id \in Stored
    /\ InSeq(inbox[i].applicant_id, quests[inbox[i].quest_id].roster)

\* C4: the organizer of a stored quest is neither on its roster nor on its
\* waitlist.
C4_OrganizerNotMember ==
  \A q \in Stored :
    /\ ~InSeq(quests[q].dm_id, quests[q].roster)
    /\ ~InSeq(quests[q].dm_id, quests[q].waitlist)

\* two applicants were accepted, neither is the organizer
C4_Witness == \E q \in Stored : Len(quests[q].roster) = 2

\* C5: while the roster is at capacity, pressing Accept for an eligible
\* applicant appends the applicant to the tail of the waitlist and leaves the
\* roster alone.
C5_AtCapacityJoinsWaitlist ==
  \A i \in LiveApplications :
    LET q == inbox[i].quest_id
        u == inbox[i].applicant_id
    IN (/\ inbox[i].outcome = "pending"
        /\ q \in Stored
        /\ ~InSeq(u, quests[q].roster)
        /\ ~InSeq(u, quests[q].waitlist)
        /\ AtCapacity(quests[q].max_players, quests[q].roster))
       => ENABLED (/\ AcceptPressed(i)
                   /\ q \in DOMAIN quests'
                   /\ quests'[q].roster = quests[q].roster
                   /\ quests'[q].waitlist = Append(quests[q].waitlist, u))

\* C6: when Leave or Kick removes a user from the roster of a FULL quest, the
\* status becomes RECRUITING if and only if the capacity is no longer exhausted
\* (max_players = 0 or len(roster) < max_players); otherwise it stays FULL.
C6_ReopenIffRoom ==
  [][\A q \in Kept :
       (/\ quests[q].status = FULL
        /\ Len(quests'[q].roster) < Len(quests[q].roster))
       => LET room == \/ quests'[q].max_players = 0
                      \/ Len(quests'[q].roster) < quests'[q].max_players
          IN /\ room => quests'[q].status = RECRUITING
             /\ ~room => quests'[q].status = FULL]_vars

\* C7: a step that shrinks the roster of a COMPLETED or CANCELLED quest leaves
\* its status unchanged.
C7_ClosedStaysClosed ==
  [][\A q \in Kept :
       (/\ quests[q].status \in {COMPLETED, CANCELLED}
        /\ Len(quests'[q].roster) < Len(quests[q].roster))
       => quests'[q].status = quests[q].status]_vars

\* a closed quest with members, whom Leave and Kick can remove
C7_Witness ==
  \E q \in Stored :
    /\ quests[q].status \in {COMPLETED, CANCELLED}
    /\ quests[q].roster # <<>>

\* C8: once a decision has been resolved, pressing Accept or Decline on it
\* again changes no stored quest.
C8_DecisionTerminal ==
  [][\A i \in 1..Len(inbox) :
       (/\ inbox[i].outcome # "pending"
        /\ (AcceptPressed(i) \/ DeclinePressed(i)))
       => quests' = quests]_vars

\* the attempts of a pair that count against the limit at a given time
SlotsUsed(stamps, key, clock) ==
  LET times == IF key \in DOMAIN stamps THEN stamps[key] ELSE <<>>
  IN Cardinality({j \in 1..Len(times) : clock - times[j] < APPLICATION_WINDOW})

\* user uid pressing Apply on embed m gets as far as the rate limit check
ReachesRateCheck(uid, m) ==
  /\ m \in LiveEmbeds
  /\ embeds[m].quest_id \in Stored
  /\ quests[embeds[m].quest_id].status \notin {COMPLETED, CANCELLED}
  /\ uid # quests[embeds[m].quest_id].dm_id
  /\ ~InSeq(uid, quests[embeds[m].quest_id].roster)

ApplyPressed(uid, m) == \E okDeliver \in BOOLEAN : ApplyButton(uid, m, okDeliver)

\* the attempt is admitted: it is recorded under the pair at the current time
Admitted(uid, m) ==
  LET key == <<uid, embeds[m].quest_id>> IN
  /\ key \in DOMAIN apply_timestamps'
  /\ Len(apply_timestamps'[key]) = SlotsUsed(apply_timestamps, key, now) + 1
  /\ apply_timestamps'[key][Len(apply_timestamps'[key])] = now

\* C9: for every (applicant, quest) pair no more than APPLICATION_LIMIT recorded
\* attempts lie within APPLICATION_WINDOW seconds before any recorded attempt;
\* an attempt made with APPLICATION_LIMIT attempts inside the window is not
\* admitted, and an attempt made with fewer inside the window (the others being
\* APPLICATION_WINDOW seconds old or older) is admitted.
C9_ThreePerRollingWindow ==
  /\ \A key \in DOMAIN apply_timestamps :
       \A j \in 1..Len(apply_timestamps[key]) :
         Cardinality({k \in 1..j :
            apply_timestamps[key][j] - apply_timestamps[key][k] < APPLICATION_WINDOW})
           <= APPLICATION_LIMIT
  /\ \A uid \in Users, m \in LiveEmbeds :
       ReachesRateCheck(uid, m) =>
         IF SlotsUsed(apply_timestamps, <<uid, embeds[m].quest_id>>, now) >= APPLICATION_LIMIT
         THEN ~ENABLED (ApplyPressed(uid, m) /\ (Admitted(uid, m) \/ inbox' # inbox))
         ELSE ENABLED (ApplyButton(uid, m, FALSE) /\ Admitted(uid, m))

\* three attempts are on record, the oldest exactly APPLICATION_WINDOW seconds
\* old and the other two inside the window
C9_Witness ==
  \E uid \in Users, m \in LiveEmbeds :
    LET key == <<uid, embeds[m].quest_id>> IN
    /\ ReachesRateCheck(uid, m)
    /\ key \in DOMAIN apply_timestamps
    /\ Len(apply_timestamps[key]) = APPLICATION_LIMIT
    /\ now - apply_timestamps[key][1] = APPLICATION_WINDOW
    /\ SlotsUsed(apply_timestamps, key, now) = APPLICATION_LIMIT - 1

\* C10: an Apply attempt that delivers no application to the organizer leaves
\* the number of attempts counted for every (applicant, quest) pair unchanged.
C10_RejectedApplyKeepsSlots ==
  [][\A uid \in Users, m \in LiveEmbeds :
       (ApplyPressed(uid, m) /\ inbox' = inbox)
       => SlotsUsed(apply_timestamps', <<uid, embeds[m].quest_id>>, now)
            = SlotsUsed(apply_timestamps, <<uid, embeds[m].quest_id>>, now)]_vars

\* the organizer-only commands as actor issues them on quest q, whatever their
\* arguments and whatever the platform calls do
KickIssued(actor, q) ==
  \E uid \in Users, okEmbed, okThread \in BOOLEAN : quest_kick(actor, q, uid, okEmbed, okThread)

SetStatusIssued(actor, q) ==
  \E s \in {COMPLETED, CANCELLED}, okEmbed, okThread \in BOOLEAN :
    _set_status(actor, q, s, okEmbed, okThread)

UpdateIssued(actor, q) ==
  \E status \in UpdateStatusArgs, has_max_players \in BOOLEAN,
     max_players \in MaxPlayersArgs, okEmbed, okThread \in BOOLEAN :
    quest_update(actor, q, status, None, None, None,
                 has_max_players, max_players, okEmbed, okThread)

DeleteIssued(actor, q) ==
  \E okEmbed, okThread \in BOOLEAN : quest_delete(actor, q, okEmbed, okThread)

\* C11: for every stored quest, an actor who is its dm_id or holds manage_guild
\* can kick each roster member, set COMPLETED and CANCELLED, update max_players
\* and delete the quest; no command of any other actor changes the stored quests.
C11_OrganizerOnly ==
  \A actor \in Actors, q \in Stored :
    IF actor.id = quests[q].dm_id \/ actor.manage_guild
    THEN /\ ENABLED (DeleteIssued(actor, q) /\ q \notin DOMAIN quests')
         /\ \A s \in {COMPLETED, CANCELLED} :
              ENABLED (SetStatusIssued(actor, q) /\ quests'[q].status = s)
         /\ \A m \in MaxPlayersArgs :
              ENABLED (UpdateIssued(actor, q) /\ quests'[q].max_players = m)
         /\ \A uid \in Users :
              InSeq(uid, quests[q].roster) =>
                ENABLED (KickIssued(actor, q) /\ ~InSeq(uid, quests'[q].roster))
    ELSE ~ENABLED (/\ \/ KickIssued(actor, q)
                      \/ SetStatusIssued(actor, q)
                      \/ UpdateIssued(actor, q)
                      \/ DeleteIssued(actor, q)
                   /\ quests' # quests)

\* a quest whose organizer is no admin, with an admin who is not its organizer
\* and a roster member who is neither
C11_Witness ==
  \E q \in Stored, a, b, c \in Actors :
    /\ a.id = quests[q].dm_id /\ ~a.manage_guild
    /\ b.id # quests[q].dm_id /\ b.manage_guild
    /\ c.id # quests[q].dm_id /\ ~c.manage_guild
    /\ InSeq(c.id, quests[q].roster)

LeavePressed(uid, m) ==
  \E okEmbed, okThread \in BOOLEAN : LeaveButton(uid, m, okEmbed, okThread)

RegisterIssued(actor, t) ==
  \E max_players \in MaxPlayersArgs, okHistory, okRename \in BOOLEAN :
    quest_register(actor, t, max_players, okHistory, okRename)

\* C12: an operation that ends in a user error leaves quests, daily_counter and
\* guild_configs as they were: Accept, Apply, Leave, Kick, complete / cancel,
\* Update and Delete of a quest that is not stored, Accept and Apply of a user
\* already on the roster, Accept with the roster at capacity, Leave and Kick of a
\* user who is not on the roster, register of a thread that has a quest, and
\* /stats clear without the CONFIRM token.
C12_UserErrorsChangeNothing ==
  /\ \A i \in LiveApplications :
       LET q == inbox[i].quest_id
           u == inbox[i].applicant_id
       IN (\/ q \notin Stored
           \/ InSeq(u, quests[q].roster)
           \/ quests[q].max_players # 0 /\ Len(quests[q].roster) >= quests[q].max_players)
          => ~ENABLED (AcceptPressed(i) /\ store' # store)
  /\ \A uid \in Users, m \in LiveEmbeds :
       LET q == embeds[m].quest_id IN
       /\ (q \notin Stored \/ InSeq(uid, quests[q].roster))
            => ~ENABLED (ApplyPressed(uid, m) /\ store' # store)
       /\ (q \notin Stored \/ ~InSeq(uid, quests[q].roster))
            => ~ENABLED (LeavePressed(uid, m) /\ store' # store)
  /\ \A actor \in Actors, q \in QuestIds :
       /\ q \notin Stored =>
            ~ENABLED (/\ \/ KickIssued(actor, q)
                         \/ SetStatusIssued(actor, q)
                         \/ UpdateIssued(actor, q)
                         \/ DeleteIssued(actor, q)
                      /\ store' # store)
       /\ \A uid \in Users :
            (q \in Stored /\ ~InSeq(uid, quests[q].roster)) =>
              ~ENABLED (/\ \E okEmbed, okThread \in BOOLEAN :
                              quest_kick(actor, q, uid, okEmbed, okThread)
                        /\ store' # store)
  /\ \A actor \in Actors, t \in DOMAIN threads :
       (\E q \in Stored : quests[q].thread_id = t)
         => ~ENABLED (RegisterIssued(actor, t) /\ store' # store)
  /\ \A g \in Guilds : ~ENABLED (stats_clear(g, FALSE) /\ store' # store)

\* an application of a user who is not on the roster is pending for a quest
\* whose roster is at capacity
C12_Witness ==
  \E i \in LiveApplications :
    /\ inbox[i].outcome = "pending"
    /\ inbox[i].quest_id \in Stored
    /\ ~InSeq(inbox[i].applicant_id, quests[inbox[i].quest_id].roster)
    /\ quests[inbox[i].quest_id].max_players # 0
    /\ Len(quests[inbox[i].quest_id].roster) >= quests[inbox[i].quest_id].max_players

\* C13: an authorized Delete of a stored quest leaves no record under its id,
\* whether the embed edit and the thread rename succeed or fail.
C13_DeletedQuestAbsent ==
  [][\A actor \in Actors, q \in Stored :
       (/\ actor.id = quests[q].dm_id \/ actor.manage_guild
        /\ DeleteIssued(actor, q))
       => q \notin DOMAIN quests']_vars

\* a quest was deleted while both platform calls failed: its embed still shows
\* an open quest with live buttons and no thread is titled DELETED
C13_Witness ==
  /\ \E m \in LiveEmbeds : embeds[m].quest_id \notin Stored /\ embeds[m].status # DELETED
  /\ \A m \in 1..Len(embeds) : embeds[m].status # DELETED
  /\ \A t \in DOMAIN threads :
       Len(threads[t].name) < Len(Bracket(DELETED))
       \/ SubSeq(threads[t].name, 1, Len(Bracket(DELETED))) # Bracket(DELETED)

\* C15: a failing platform call does not keep a handler from storing what it
\* stores when the call succeeds: every record a handler creates is stored with
\* the system that was found or, when none was found, with UNKNOWN.
C15_FailuresKeepStoredUpdates ==
  [][\A q \in DOMAIN quests' \ DOMAIN quests : Truthy(quests'[q].system)]_vars

\* C14: a quest_id that Delete or a guild clear has removed from the store is
\* never stored again, whatever a handler suspended at an outbound call does
\* when it resumes.
C14_DeleteIsTerminal == \A q \in purged : q \notin Stored

\* the thread title and the embed of a stored quest show the stored record
InSync(q) ==
  LET quest == quests[q]
      m == quest.embed_message_id
  IN /\ threads[quest.thread_id].name = build_thread_title(quest)
     /\ quest.embed_channel_id # NoId /\ m # NoId /\ ~embeds[m].deleted
        => embeds[m].status = quest.status /\ embeds[m].roster = quest.roster

\* the same of the state a step leads to
InSyncAfter(q) ==
  LET quest == quests'[q]
      m == quest.embed_message_id
  IN /\ threads'[quest.thread_id].name = build_thread_title(quest)
     /\ quest.embed_channel_id # NoId /\ m # NoId /\ ~embeds'[m].deleted
        => embeds'[m].status = quest.status /\ embeds'[m].roster = quest.roster

\* C16: every outbound call succeeds. When a handler that saved a quest ends
\* its _sync_quest_everywhere and no other handler is suspended any more, the
\* thread title is the canonical title of the stored record and the embed
\* shows the stored status and roster.
C16_CompletedSyncsReconcile ==
  [][(/\ tasks # <<>> /\ tasks' = <<>>
      /\ tasks[1].at \in {"sync_thread", "edit_message"}
      /\ tasks[1].quest.quest_id \in DOMAIN quests')
     => InSyncAfter(tasks[1].quest.quest_id)]_vars

\* an Accept that filled quest q is still suspended in its sync, and the
\* application j of somebody else for q waits for its Accept
LastSlotRace(k, j) ==
  LET q == tasks[k].quest.quest_id IN
  /\ k \in Waiting("sync_embed") /\ tasks[k].app # NoId
  /\ Len(tasks) < MaxTasks
  /\ q \in Stored
  /\ quests[q].max_players > 0
  /\ Len(quests[q].roster) = quests[q].max_players
  /\ quests[q] = tasks[k].quest
  /\ j \in LiveApplications /\ j # tasks[k].app
  /\ inbox[j].quest_id = q
  /\ ~InSeq(inbox[j].applicant_id, quests[q].roster)

\* C17 as stated: while one Accept that took the last free slot is suspended,
\* a second Accept for the same quest can succeed and leave the roster longer
\* than max_players.
C17_BothAcceptsSucceed ==
  \A k \in 1..Len(tasks), j \in 1..Len(inbox) :
    LastSlotRace(k, j)
    => ENABLED (/\ AcceptSaved(j)
                /\ Len(quests'[inbox[j].quest_id].roster) > quests'[inbox[j].quest_id].max_players)

\* C17: handlers interleave at their outbound calls only, and Accept has none
\* between its capacity check and its save: a step that adds to the roster of
\* a quest with a player cap never leaves the roster longer than the cap.
C17_AcceptKeepsCapacity ==
  [][\A q \in Kept :
       (Len(quests'[q].roster) > Len(quests[q].roster) /\ quests'[q].max_players > 0)
       => Len(quests'[q].roster) <= quests'[q].max_players]_vars

C17_Witness == \E k \in 1..Len(tasks), j \in 1..Len(inbox) : LastSlotRace(k, j)

\* C18: the document on disk is the one that results from applying the saving
\* calls one whole call after the other, in the order of their saves: no call
\* saves over a write it has not loaded.
C18_CallsAreSerialized == disk = serial

\* one thread is between its load and its save while another one, which is
\* going to write something else, waits at the lock
C18_Witness ==
  \E c, other \in Callers :
    /\ callers[c].pc = "loaded" /\ callers[c].op \in Saving
    /\ callers[other].pc = "waiting" /\ callers[other].op \in Saving
    /\ callers[c].op # callers[other].op
    /\ disk.quests # <<>>

\* int(s) of a string of decimal digits
DigitValue(ch) == (CHOOSE k \in 1..10 : DecimalDigits[k] = ch) - 1

RECURSIVE ToNat(_)
ToNat(s) == IF s = <<>> THEN 0
            ELSE 10 * ToNat(SubSeq(s, 1, Len(s) - 1)) + DigitValue(s[Len(s)])

\* the parts of an id of the form DDMMYY-NNNN
DateOf(id) == SubSeq(id, 1, 6)
NumberOf(id) == ToNat(SubSeq(id, 8, Len(id)))

\* DDMMYY, a dash and exactly four digits
FourDigits(id) ==
  /\ Len(id) = 11
  /\ id[7] = "-"
  /\ \A k \in 8..11 : id[k] \in Digits

\* the ids returned before on the day of date_key
EarlierOn(date_key) == {i \in 1..Len(Issued) : DateOf(Issued[i].ret) = date_key}

\* id is the next one of its day: one more than the last one returned on that
\* day, 0001 on a day on which none was generated
NextOfDay(id, date_key) ==
  /\ DateOf(id) = date_key
  /\ EarlierOn(date_key) # {}
     => \E i \in EarlierOn(date_key) :
          /\ \A j \in EarlierOn(date_key) : j <= i
          /\ NumberOf(id) = NumberOf(Issued[i].ret) + 1
  /\ date_key \notin DOMAIN disk.daily_counter => id = date_key \o <<"-", "0", "0", "0", "1">>

\* C19: every id generate_quest_id returns is DDMMYY of the current UTC day, a
\* dash and exactly four digits; its number is one more than that of the id
\* returned before it on the same day, and 0001 for the first id of a day.
C19_DailySequence ==
  [][Len(Issued') > Len(Issued)
     => /\ FourDigits(Issued'[Len(Issued')].ret)
        /\ NextOfDay(Issued'[Len(Issued')].ret, strftime(Dates[utc_date]))]_vars

\* C20: no two calls of generate_quest_id return the same id.
C20_NeverIssuedTwice ==
  \A i, j \in 1..Len(Issued) : Issued[i].ret = Issued[j].ret => i = j

\* an id was returned, a stored quest was deleted, the process was restarted
\* and another id was returned
C20_Witness ==
  /\ Len(calls) = 4
  /\ calls[1].op = "generate_quest_id"
  /\ calls[2].op = "delete_quest"
  /\ calls[3].op = "restart"
  /\ calls[4].op = "generate_quest_id"

\* the five fields parse_title returns, read from a title
FixedPoint(title) ==
  parse_title(build_thread_title(parse_title(title))) = parse_title(title)

\* C21: for the title of every thread, parsing it, building the canonical
\* title of the result and parsing that again gives the result of the first
\* parse in all five fields.
C21_ParseBuildParse == \A t \in DOMAIN threads : FixedPoint(threads[t].name)

\* parse_title of the canonical title of a record gives back each of the five
\* fields the record holds, and None for each one it does not hold
RoundTrips(quest) ==
  LET parsed == parse_title(build_thread_title(quest)) IN
  /\ parsed.status = IF Truthy(quest.status) THEN quest.status ELSE None
  /\ parsed.mode = IF Truthy(quest.mode) THEN quest.mode ELSE None
  /\ parsed.quest_type = IF Truthy(quest.quest_type) THEN quest.quest_type ELSE None
  /\ parsed.system = IF Truthy(quest.system) THEN quest.system ELSE None
  /\ parsed.title = quest.title

\* C22: every stored quest, as the handlers that save it pass it to
\* build_thread_title and as quest_delete passes it with status DELETED, is
\* recovered from its canonical title by parse_title.
C22_BuildParseRecovers ==
  \A q \in Stored :
    /\ RoundTrips(quests[q])
    /\ RoundTrips([quests[q] EXCEPT !.status = DELETED])

\* the fields that identify a quest
Identity(quest) == <<quest.quest_id, quest.guild_id, quest.thread_id, quest.dm_id>>

\* C23: no step changes the quest_id, guild_id, thread_id or dm_id of a quest
\* that is stored before and after it, and the record stored under a key
\* carries that key as its quest_id.
C23_IdentityIsFixed ==
  [][/\ \A k \in DOMAIN quests \cap DOMAIN quests' : Identity(quests'[k]) = Identity(quests[k])
     /\ \A k \in DOMAIN quests' : quests'[k].quest_id = k]_vars

\* a registered quest that was re-posted with a player limit, gained a player
\* and was completed
C23_Witness ==
  \E k \in Stored :
    /\ quests[k].embed_message_id # NoId
    /\ quests[k].dm_id = Admin
    /\ quests[k].max_players = 2
    /\ quests[k].roster # <<>>
    /\ quests[k].status = COMPLETED

\* C24: no record in the store has status DELETED, whatever coroutines are
\* suspended and in whatever order they resume.
C24_NoStoredDeleted == \A k \in Stored : quests[k].status # DELETED

\* a delete suspended at one of its calls holds a copy marked DELETED of a quest
\* that is still stored, while another coroutine is suspended as well
C24_Witness ==
  \E k \in 1..Len(tasks) :
    /\ tasks[k].at \in {"delete_embed", "delete_thread"}
    /\ tasks[k].quest.status = DELETED
    /\ tasks[k].quest.quest_id \in Stored
    /\ \E j \in 1..Len(tasks) : tasks[j].at \notin {"delete_embed", "delete_thread"}

\* C25: the max_players of every stored quest is a non-negative integer.
C25_MaxPlayersNonNegative == \A k \in Stored : quests[k].max_players >= 0

\* the title a created quest was parsed from: the name its thread had before
\* the step, or for a thread the step opened the name it has after it, which
\* is the name it was opened with when the rename failed
TitleRead(quest) ==
  IF quest.thread_id \in DOMAIN threads
  THEN threads[quest.thread_id].name
  ELSE threads'[quest.thread_id].name

\* C26: whichever handler creates a quest (the thread hook, /quest recruit in a
\* thread without a quest, /quest register), the quest is stored with an empty
\* roster, an empty waitlist, an id above every id issued before
\* (1..daily_counter), and as status the status tag parsed from the thread
\* title, or RECRUITING without a tag.
C26_CreatedClean ==
  [][\A k \in DOMAIN quests' \ DOMAIN quests :
       LET parsed == parse_title(TitleRead(quests'[k])) IN
       /\ k > daily_counter
       /\ quests'[k].quest_id = k
       /\ quests'[k].roster = <<>>
       /\ quests'[k].waitlist = <<>>
       /\ quests'[k].status = IF Truthy(parsed.status) THEN parsed.status ELSE RECRUITING]_vars

\* a quest created from a title tagged [full], whose thread kept the title it
\* was opened with: it is stored FULL with nobody on its roster
C26_Witness ==
  \E k \in Stored :
    /\ quests[k].status = FULL
    /\ quests[k].roster = <<>>
    /\ quests[k].waitlist = <<>>
    /\ threads[quests[k].thread_id].name # build_thread_title(quests[k])
    /\ parse_title(threads[quests[k].thread_id].name).status = FULL

\* C27: once the handler that created it has ended, with its outbound calls
\* succeeding or failing, a stored quest has a system: the tag of the title,
\* the system found in the starter message, or UNKNOWN, and never none.
C27_SystemResolved == \A k \in Stored : Truthy(quests[k].system)

\* the arguments of /quest update that were supplied
Supplied(args) ==
  {f \in {"status", "mode", "quest_type", "system"} : args[f] # None}
    \cup (IF args.has_max_players THEN {"max_players"} ELSE {})

\* the step gives each supplied field of quest q its argument, text in upper
\* case, and leaves its other fields and the other quests as they are
OnlySupplied(q, args) ==
  /\ DOMAIN quests' = DOMAIN quests
  /\ \A other \in DOMAIN quests \ {q} : quests'[other] = quests[other]
  /\ \A f \in DOMAIN quests[q] \ Supplied(args) : quests'[q][f] = quests[q][f]
  /\ \A f \in Supplied(args) :
       quests'[q][f] = IF f = "max_players" THEN args.max_players ELSE Upper(args[f])

\* the step sets the status of quest q and nothing else in the store
OnlyStatus(q, s) ==
  /\ DOMAIN quests' = DOMAIN quests
  /\ \A other \in DOMAIN quests \ {q} : quests'[other] = quests[other]
  /\ \A f \in DOMAIN quests[q] \ {"status"} : quests'[q][f] = quests[q][f]
  /\ quests'[q].status = s

\* C28: /quest complete and /quest cancel change the status of the quest and
\* nothing else; /quest update changes exactly the fields among status, mode,
\* quest_type, system and max_players that were supplied, max_players = 0
\* being supplied; the roster, the waitlist, every other field and every other
\* quest stay as they are.
C28_EditsAreFramed ==
  \A actor \in Managers, q \in Stored :
    /\ \A args \in UpdateArgs :
         ~ENABLED (UpdateWith(actor, q, args) /\ ~OnlySupplied(q, args))
    /\ \A s \in {COMPLETED, CANCELLED} :
         ~ENABLED (_set_status(actor, q, s, TRUE, TRUE) /\ ~OnlyStatus(q, s))

\* the first quest was updated in mode, type and system and then completed,
\* the second had its limit lifted with max_players = 0, and both rosters are
\* the ones they had
C28_Witness ==
  /\ quests[1].mode = ONLINE
  /\ quests[1].quest_type = ONESHOT
  /\ quests[1].system = FATE
  /\ quests[1].status = COMPLETED
  /\ quests[1].roster = <<4, 2, 3>>
  /\ quests[2] = [Boarded(2, <<2>>) EXCEPT !.max_players = 0]

\* the step takes uid and nobody else off the roster of quest q, the others
\* keeping their order, and leaves the waitlist and the other quests alone
KickedOnly(q, uid) ==
  /\ DOMAIN quests' = DOMAIN quests
  /\ \A other \in DOMAIN quests \ {q} : quests'[other] = quests[other]
  /\ quests'[q].roster = SelectSeq(quests[q].roster, LAMBDA member : member # uid)
  /\ quests'[q].waitlist = quests[q].waitlist

\* C29: /quest kick removes the named user and nobody else from the roster,
\* the remaining players keep their order, and the waitlist is never changed;
\* naming a user who is not on the roster, on the waitlist or not, removes
\* nobody, and neither does a kick by someone who does not manage the quest.
C29_KickRemovesOne ==
  \A actor \in Editors, q \in Stored, uid \in Members \cup {Organizer} :
    IF _is_quest_manager(actor, quests[q]) /\ InSeq(uid, quests[q].roster)
    THEN ~ENABLED (quest_kick(actor, q, uid, TRUE, TRUE) /\ ~KickedOnly(q, uid))
    ELSE ~ENABLED (quest_kick(actor, q, uid, TRUE, TRUE) /\ quests' # quests)

\* the first of the three players of the first quest was kicked and the other
\* two are on the roster in their order
C29_Witness ==
  /\ quests[1].roster = <<2, 3>>
  /\ quests[1].waitlist = <<>>
  /\ quests[2].roster = <<2>>

\* an administrator completes quest q; okEmbed and okThread say whether the
\* embed update and the thread rename of the sync succeed
Completes(q, okEmbed, okThread) ==
  _set_status([id |-> Admin, manage_guild |-> TRUE], q, COMPLETED, okEmbed, okThread)

\* C30: in a sync the embed update and the thread rename are independent. The
\* rename is made whether the embed update succeeded, failed or was skipped
\* for lack of an embed id, so that after a rename that succeeds the thread
\* carries the canonical title in each of these cases (a thread that already
\* carries it is left alone); and a rename that fails leaves a successful
\* embed update in place.
C30_SyncHalvesIndependent ==
  \A q \in Stored :
    LET quest == quests[q]
        t == quest.thread_id
        m == quest.embed_message_id
        canonical == build_thread_title([quest EXCEPT !.status = COMPLETED])
    IN
    /\ \A okEmbed \in BOOLEAN :
         /\ ENABLED (Completes(q, okEmbed, TRUE) /\ threads'[t].name = canonical)
         /\ ~ENABLED (Completes(q, okEmbed, TRUE) /\ threads'[t].name # canonical)
    /\ (quest.embed_channel_id # NoId /\ m # NoId /\ ~embeds[m].deleted) =>
         /\ ENABLED (/\ Completes(q, TRUE, FALSE)
                     /\ embeds'[m].status = COMPLETED
                     /\ threads' = threads)
         /\ ~ENABLED (Completes(q, TRUE, FALSE) /\ embeds'[m].status # COMPLETED)

\* a completed quest whose embed still shows the earlier status, the embed
\* update having failed, in a thread that carries the canonical title
C30_Witness ==
  \E q \in Stored :
    LET m == quests[q].embed_message_id IN
    /\ quests[q].status = COMPLETED
    /\ m # NoId
    /\ ~embeds[m].deleted
    /\ embeds[m].status # COMPLETED
    /\ threads[quests[q].thread_id].name = build_thread_title(quests[q])

\* the bracketed tokens of a title, trimmed and in upper case
Tags(title) ==
  LET tokens == BracketScan(title, 1).tokens
  IN [i \in 1..Len(tokens) |-> Upper(Strip(tokens[i]))]

\* the tags of a title that are in the vocabulary, and None when there is none
TagsIn(title, vocabulary) ==
  IF \E i \in 1..Len(Tags(title)) : Tags(title)[i] \in vocabulary
  THEN {Tags(title)[i] : i \in {j \in 1..Len(Tags(title)) : Tags(title)[j] \in vocabulary}}
  ELSE {None}

\* the positions of the tags that are in no vocabulary
Unmatched(title) ==
  {i \in 1..Len(Tags(title)) : Tags(title)[i] \notin VALID_STATUS \cup VALID_MODE \cup VALID_TYPE}

ParsedAsDocumented(title) ==
  LET parsed == parse_title(title)
      remainder == Strip(BracketScan(title, 1).rest)
  IN
  /\ parsed.status \in TagsIn(title, VALID_STATUS)
  /\ parsed.mode \in TagsIn(title, VALID_MODE)
  /\ parsed.quest_type \in TagsIn(title, VALID_TYPE)
  /\ parsed.system =
       IF Unmatched(title) = {} THEN None
       ELSE Tags(title)[CHOOSE i \in Unmatched(title) : \A j \in Unmatched(title) : i <= j]
  /\ parsed.title = IF remainder = <<>> THEN UntitledQuest ELSE remainder

\* C31: parse_title matches each bracketed token, trimmed and without regard
\* to case, against the status, mode and type vocabularies; the first token
\* that matches none is the system, in upper case, and later ones are
\* ignored; the title is the text outside the bracketed segments, trimmed, or
\* "Untitled Quest" when nothing is left. The documented example parses to
\* RECRUITING, ONLINE, ONESHOT, D&D and "Lost Mine of Phandelver".
C31_TitleParsed ==
  /\ \A t \in DOMAIN threads : ParsedAsDocumented(threads[t].name)
  /\ parse_title(LostMine) =
       [status |-> RECRUITING, mode |-> ONLINE, quest_type |-> ONESHOT,
        system |-> <<"D", "&", "D">>,
        title |-> <<"L","o","s","t"," ","M","i","n","e"," ","o","f"," ",
                    "P","h","a","n","d","e","l","v","e","r">>]

\* a thread whose title has a status tag in lower case and two tokens that are
\* in no vocabulary
C31_Witness ==
  \E t \in DOMAIN threads :
    /\ Cardinality(Unmatched(threads[t].name)) = 2
    /\ parse_title(threads[t].name).status = FULL
    /\ FULL \notin {BracketScan(threads[t].name, 1).tokens[i] :
                       i \in 1..Len(BracketScan(threads[t].name, 1).tokens)}

\* the step removes the quests of guild g and no other, and changes neither a
\* quest that stays, nor a guild's configuration, nor the counter
ClearedExactly(g) ==
  /\ DOMAIN quests' = {q \in DOMAIN quests : quests[q].guild_id # g}
  /\ \A q \in DOMAIN quests' : quests'[q] = quests[q]
  /\ guild_configs' = guild_configs
  /\ daily_counter' = daily_counter

\* C32: clear_guild_quests(g) removes exactly the quests whose guild_id is g,
\* returns how many it removed, and leaves the quests of the other guilds,
\* the guild configurations and the daily counter as they are.
C32_ClearIsScoped ==
  \A g \in TwoGuilds :
    /\ ENABLED (stats_clear(g, TRUE) /\ ClearedExactly(g))
    /\ ~ENABLED (stats_clear(g, TRUE) /\ ~ClearedExactly(g))
    /\ ClearedCount(quests, g) = Cardinality({q \in Stored : quests[q].guild_id = g})

\* the first guild was cleared: the quest of the second guild is the only one
\* stored, with its players, and the counter stands at three
C32_Witness ==
  /\ Stored = {3}
  /\ quests[3].guild_id = 2
  /\ quests[3].roster # <<>>
  /\ daily_counter = 3
  /\ DOMAIN guild_configs = TwoGuilds

\* the place of an id in the order in which the ids were issued
IssuedAt(id) == CHOOSE i \in 1..Len(Issued) : Issued[i].ret = id

\* C33: _get_guild_quests(g) returns the stored quests of guild g, each once
\* and no other, newest first: of any two quests in the result the one that
\* was created later comes before the one created earlier.
C33_NewestFirst ==
  \A g \in Guilds :
    LET result == _get_guild_quests(disk, g) IN
    /\ {result[i].quest_id : i \in 1..Len(result)}
         = {qid \in DOMAIN disk.quests : disk.quests[qid].guild_id = g}
    /\ \A i, j \in 1..Len(result) :
         i < j => IssuedAt(result[i].quest_id) > IssuedAt(result[j].quest_id)

\* the step puts somebody on the roster of quest q or changes its status
JoinedOrRestated(q) ==
  /\ q \in DOMAIN quests'
  /\ \/ \E u \in Users : InSeq(u, quests'[q].roster) /\ ~InSeq(u, quests[q].roster)
     \/ quests'[q].status # quests[q].status

\* C34: while the stored status of a quest is COMPLETED or CANCELLED, no button
\* (Apply, Accept, Decline, Leave) adds a member to it or changes its status;
\* an Accept of an application that was submitted before the quest was closed
\* leaves its roster and status as they are.
C34_ClosedQuestsStayClosed ==
  \A q \in Stored :
    quests[q].status \in {COMPLETED, CANCELLED} =>
      /\ \A i \in LiveApplications :
           inbox[i].quest_id = q =>
             /\ ~ENABLED (AcceptPressed(i) /\ JoinedOrRestated(q))
             /\ ~ENABLED (DeclinePressed(i) /\ JoinedOrRestated(q))
      /\ \A uid \in Users, m \in LiveEmbeds :
           embeds[m].quest_id = q =>
             /\ ~ENABLED (ApplyPressed(uid, m) /\ JoinedOrRestated(q))
             /\ ~ENABLED (LeavePressed(uid, m) /\ JoinedOrRestated(q))

\* C35: in every stored state there is at most one quest for a thread,
\* however the thread hook, /quest register and /quest recruit interleave on
\* the thread.
C35_OneQuestPerThread ==
  \A a, b \in Stored : quests[a].thread_id = quests[b].thread_id => a = b

\* a step of a handler that resumes and saves the record it loaded earlier
StaleSave ==
  \E k \in 1..MaxTasks, ok \in Ok :
    \/ HookSend(k, ok)
    \/ RecruitDelete(k, ok)
    \/ RecruitSend(k, ok)

\* C36: a save by a handler that loaded the quest earlier (the thread hook
\* after its send, /quest recruit on a registered thread) does not put back an
\* older status or roster over the one another handler saved meanwhile.
C36_NoStaleOverwrite ==
  [][StaleSave =>
       \A q \in Stored \cap DOMAIN quests' :
         /\ quests'[q].status = quests[q].status
         /\ quests'[q].roster = quests[q].roster]_vars

\* /quest update or /quest recruit as issued by one actor, every outbound
\* call succeeding
CapacityIssued(actor) ==
  \/ \E q \in QuestIds : UpdateIssued(actor, q)
  \/ \E t \in ThreadIds, max_players \in MaxPlayersArgs :
       quest_recruit(actor, t, max_players, TRUE, TRUE, TRUE, TRUE)

\* C37: max_players of a quest that is stored changes only in an operation of
\* the quest's dm_id or of a server admin, be it /quest update or /quest recruit
\* on the thread the quest is registered for.
C37_CapacityByManagers ==
  [][\A actor \in Actors :
       CapacityIssued(actor) =>
         \A q \in Stored \cap DOMAIN quests' :
           quests'[q].max_players # quests[q].max_players =>
             _is_quest_manager(actor, quests[q])]_vars

\* a step changes what the limiter holds for a pair other than key
OtherPairsTouched(key) ==
  \E other \in (DOMAIN apply_timestamps \cup DOMAIN apply_timestamps') \ {key} :
    \/ other \notin DOMAIN apply_timestamps
    \/ other \notin DOMAIN apply_timestamps'
    \/ apply_timestamps'[other] # apply_timestamps[other]

\* C38: the limiter is scoped per (applicant, quest) pair. An Apply attempt of
\* user u on quest q, admitted or not, leaves the timestamps of every other
\* pair as they were, and whether it is admitted depends on the attempts on
\* record for (u, q) alone: attempts of another user, or of u on another
\* quest, neither cause nor prevent its rejection.
C38_LimiterIsPerPair ==
  \A uid \in Applicants, m \in LiveEmbeds :
    LET key == <<uid, embeds[m].quest_id>> IN
    /\ ~ENABLED (ApplyPressed(uid, m) /\ OtherPairsTouched(key))
    /\ ReachesRateCheck(uid, m) =>
         IF SlotsUsed(apply_timestamps, key, now) >= APPLICATION_LIMIT
         THEN ~ENABLED (ApplyPressed(uid, m) /\ Admitted(uid, m))
         ELSE ENABLED (ApplyButton(uid, m, FALSE) /\ Admitted(uid, m))

\* user 2 is at the limit on quest 1 while attempts of user 2 on quest 2 and
\* of user 3 on quest 1 are on record below the limit
C38_Witness ==
  /\ SlotsUsed(apply_timestamps, <<2, 1>>, now) = APPLICATION_LIMIT
  /\ SlotsUsed(apply_timestamps, <<2, 2>>, now) \in 1..(APPLICATION_LIMIT - 1)
  /\ SlotsUsed(apply_timestamps, <<3, 1>>, now) \in 1..(APPLICATION_LIMIT - 1)

\* a step puts a user on the roster of a quest that was stored before it
MemberAdded ==
  \E q \in Stored \cap DOMAIN quests', uid \in Users :
    InSeq(uid, quests'[q].roster) /\ ~InSeq(uid, quests[q].roster)

\* C39: Apply and Decline leave the stored document as it is: roster, waitlist,
\* status and parameters of every stored quest; a member is added to a roster
\* by Accept alone.
C39_ApplyAndDeclineOnlyNotify ==
  [][/\ \A uid \in Users, m \in LiveEmbeds : ApplyPressed(uid, m) => store' = store
     /\ \A i \in LiveApplications : DeclinePressed(i) => store' = store
     /\ MemberAdded => \E i \in LiveApplications : AcceptPressed(i)]_vars

\* one application was answered and its buttons disabled, another is pending,
\* and the roster of the quest is empty
C39_Witness ==
  \E i, j \in 1..Len(inbox) :
    /\ inbox[i] = Closed
    /\ inbox[j].outcome = "pending"
    /\ inbox[j].quest_id \in Stored
    /\ quests[inbox[j].quest_id].roster = <<>>

====
